---- MODULE Spec2Model ----
(***************************************************************************)
(* State-space models of neuromancer/dynamics.py: the named-port key       *)
(* remapping of class SSM, the block-structured recurrence of BlockSSM     *)
(* (specification Spec) and the black-box, time-delay and ODE variants     *)
(* (specification VariantSpec).                                            *)
(*                                                                         *)
(* A tensor is the sequence of its entries along the leading axis (batch   *)
(* size 1, one feature shown); the declared widths in_features and         *)
(* out_features of a sub-map are kept as numbers of their own.  Tensors    *)
(* live in a heap and every program variable holds a reference, because    *)
(* BlockSSM.forward updates the state in place (x += x_prev).              *)
(***************************************************************************)
EXTENDS Integers, Sequences, FiniteSets, TLC

(* ---------------------------- bounds ----------------------------------- *)
\* longest reference horizon (leading-axis length of Yf) the driver supplies
MaxN == 3
\* largest entry of the initial-state tensor the driver supplies
MaxX0 == 1

(* ---------------------------- Python values ---------------------------- *)
\* Python's None, for an absent name
None == "None"

\* a dict is the sequence of its <<key, value>> items in insertion order
DictKeys(d) == [j \in 1..Len(d) |-> d[j][1]]
DictValues(d) == [j \in 1..Len(d) |-> d[j][2]]
SeqRange(s) == {s[j] : j \in 1..Len(s)}
HasKey(d, k) == k \in SeqRange(DictKeys(d))
\* d[k]; defined only when HasKey(d, k)
Get(d, k) == d[CHOOSE j \in 1..Len(d) : d[j][1] = k][2]

(* ------------------------------ tensors -------------------------------- *)
\* the elementwise operators a model is configured with (xou, xod, xoe,
\* xoyu): torch.add (the default), torch.sub, torch.mul; each returns a new
\* tensor
Elementwise(op, p, q) ==
  CASE op = "add" -> p + q
    [] op = "sub" -> p - q
    [] op = "mul" -> p * q
\* elementwise binary operation with broadcasting of a length-1 operand;
\* defined when the lengths agree or one of them is 1
TorchOp(op, a, b) ==
  IF Len(a) = Len(b) THEN [j \in 1..Len(a) |-> Elementwise(op, a[j], b[j])]
  ELSE IF Len(b) = 1 THEN [j \in 1..Len(a) |-> Elementwise(op, a[j], b[1])]
  ELSE [j \in 1..Len(b) |-> Elementwise(op, a[1], b[j])]

(* ------------------------------ sub-maps ------------------------------- *)
\* A sub-map (blocks.py) declares in_features and out_features, may expose
\* reg_error() (hasreg, with value reg) and computes fn:
\*   "linear" a bias-free linear map with the given weight (a new tensor),
\*   "pass"   a map that returns its argument object itself (weight 1).
NoBlock == [kind |-> "None", in_features |-> 0, out_features |-> 0,
            fn |-> "None", weight |-> 0, hasreg |-> FALSE, reg |-> 0]
IsNone(b) == b.kind = "None"
Block(nin, nout, fn, weight, hasreg, reg) ==
  [kind |-> "Module", in_features |-> nin, out_features |-> nout,
   fn |-> fn, weight |-> weight, hasreg |-> hasreg, reg |-> reg]
\* the entries a sub-map computes from the entries t of its argument
Apply(b, t) == [j \in 1..Len(t) |-> b.weight * t[j]]

(* ------------------------- class SSM (base) ---------------------------- *)
\* dict(items): a later item with a key already present replaces the value
\* at the key's first position
RECURSIVE DictFromItems(_)
DictFromItems(items) ==
  IF items = << >> THEN << >>
  ELSE LET n == Len(items)
           d == DictFromItems(SubSeq(items, 1, n - 1))
           it == items[n]
       IN IF HasKey(d, it[1])
          THEN [j \in 1..Len(d) |-> IF d[j][1] = it[1] THEN it ELSE d[j]]
          ELSE Append(d, it)

\* the dict built by update_input_keys: the defaults that the supplied
\* mapping does not name, each mapped to itself, then the supplied items
\* (variant: the defaults written after the supplied items, so that a default
\* wins over the supplied entry)
MergedKeyMapDefaultsLast(defaults, m) ==
  DictFromItems(m \o [j \in 1..Len(defaults) |-> <<defaults[j], defaults[j]>>])
MergedKeyMap(defaults, m) ==
  LET unnamed == SelectSeq(defaults, LAMBDA k : ~HasKey(m, k))
  IN DictFromItems([j \in 1..Len(unnamed) |-> <<unnamed[j], unnamed[j]>>] \o m)

\* the assertion of update_input_keys over the new list of input keys
KeyCountOk(input_keys, defaults) == Len(input_keys) = Len(defaults)

\* (variant: the supplied mapping is merged into the mapping already on the
\* instance instead of replacing it)
UpdateInputKeysMerging(obj, m) ==
  LET km == MergedKeyMap(obj.DEFAULT_INPUT_KEYS, DictFromItems(obj.input_key_map \o m))
      ks == DictValues(km)
  IN [ok |-> KeyCountOk(ks, obj.DEFAULT_INPUT_KEYS),
      obj |-> [obj EXCEPT !.input_key_map = km, !.input_keys = ks]]
\* SSM.update_input_keys: the attributes are assigned before the assertion
\* runs, so a rejected mapping is still left on the instance
UpdateInputKeys(obj, m) ==
  LET km == MergedKeyMap(obj.DEFAULT_INPUT_KEYS, m)
      ks == DictValues(km)
  IN [ok |-> KeyCountOk(ks, obj.DEFAULT_INPUT_KEYS),
      obj |-> [obj EXCEPT !.input_key_map = km, !.input_keys = ks]]

\* (variant: the name is never appended)
OutputKeyBare(k, name) == k
\* f"{k}_{name}" if name is not None else k
OutputKey(k, name) == IF name # None THEN k \o "_" \o name ELSE k
OutputKeys(defaults, name) == [j \in 1..Len(defaults) |-> OutputKey(defaults[j], name)]

\* Component.__init__ keeps the keys and the name it is given
ComponentInit(obj, input_keys, output_keys, name) ==
  [obj EXCEPT !.input_keys = input_keys, !.output_keys = output_keys, !.name = name]

\* SSM.__init__
SSMInit(obj, input_key_map, name) ==
  LET r == UpdateInputKeys(obj, input_key_map)
  IN IF ~r.ok THEN r
     ELSE [ok |-> TRUE,
           obj |-> ComponentInit(r.obj, r.obj.input_keys,
                                 OutputKeys(r.obj.DEFAULT_OUTPUT_KEYS, name), name)]

(* --------------------------- class BlockSSM ---------------------------- *)
\* the attributes of an instance before __init__ has assigned them
NewObject(cls, default_in, default_out) ==
  [cls |-> cls,
   DEFAULT_INPUT_KEYS |-> default_in, DEFAULT_OUTPUT_KEYS |-> default_out,
   input_key_map |-> << >>, input_keys |-> << >>, output_keys |-> << >>,
   name |-> None,
   fx |-> NoBlock, fy |-> NoBlock, fu |-> NoBlock, fd |-> NoBlock,
   fe |-> NoBlock, fyu |-> NoBlock,
   nx |-> 0, ny |-> 0, nu |-> 0, nd |-> 0,
   xou |-> "add", xod |-> "add", xoe |-> "add", xoyu |-> "add",
   residual |-> FALSE]

\* the instance-level key lists BlockSSM.__init__ derives from its channels
BlockDefaultInputKeys(a) ==
  <<"x0", "Yf">> \o (IF ~IsNone(a.fu) THEN <<"Uf">> ELSE << >>)
                 \o (IF ~IsNone(a.fd) THEN <<"Df">> ELSE << >>)
BlockDefaultOutputKeys(a) ==
  <<"reg_error", "X_pred", "Y_pred">>
     \o (IF ~IsNone(a.fu) THEN <<"fU">> ELSE << >>)
     \o (IF ~IsNone(a.fd) THEN <<"fD">> ELSE << >>)
     \o (IF ~IsNone(a.fe) THEN <<"fE">> ELSE << >>)

\* BlockSSM.check_features: TRUE when no assertion fails
\* (variant: the assertion on the observation map is missing)
BlockCheckFeaturesNoFy(obj) ==
  /\ obj.fx.in_features = obj.fx.out_features
  /\ ~IsNone(obj.fu) => obj.fu.out_features = obj.fx.out_features
  /\ ~IsNone(obj.fd) => obj.fd.out_features = obj.fx.out_features
BlockCheckFeatures(obj) ==
  /\ obj.fx.in_features = obj.fx.out_features
  /\ obj.fy.in_features = obj.fx.out_features
  /\ ~IsNone(obj.fu) => obj.fu.out_features = obj.fx.out_features
  /\ ~IsNone(obj.fd) => obj.fd.out_features = obj.fx.out_features

\* BlockSSM.__init__ on arguments a: [ok, obj], ok = FALSE when an assertion
\* of SSM.update_input_keys or of check_features fails
BlockSSMInit(a) ==
  LET o0 == NewObject("BlockSSM", BlockDefaultInputKeys(a), BlockDefaultOutputKeys(a))
      r == SSMInit(o0, a.input_key_map, a.name)
      o1 == [r.obj EXCEPT !.fx = a.fx, !.fy = a.fy, !.fu = a.fu, !.fd = a.fd,
                          !.fe = a.fe, !.fyu = a.fyu,
                          !.nx = a.fx.in_features, !.ny = a.fy.out_features,
                          !.nu = IF ~IsNone(a.fu) THEN a.fu.in_features ELSE 0,
                          !.nd = IF ~IsNone(a.fd) THEN a.fd.in_features ELSE 0]
      o2 == [o1 EXCEPT !.residual = a.residual, !.xou = a.xou, !.xod = a.xod,
                       !.xoe = a.xoe, !.xoyu = a.xoyu]
  IN IF ~r.ok THEN r
     ELSE IF ~BlockCheckFeatures(o1) THEN [ok |-> FALSE, obj |-> o1]
     ELSE [ok |-> TRUE, obj |-> o2]

\* BlockSSM.reg_error: the sum over the registered child modules that have
\* the accessor; children() lists the sub-maps that are not None
Children(obj) ==
  SelectSeq(<<obj.fx, obj.fy, obj.fu, obj.fd, obj.fe, obj.fyu>>, LAMBDA b : ~IsNone(b))
RECURSIVE Sum(_)
Sum(s) == IF s = << >> THEN 0 ELSE s[1] + Sum(Tail(s))
\* (variant: only the state-transition and observation maps are summed)
RegErrorMainOnly(obj) ==
  (IF obj.fx.hasreg THEN obj.fx.reg ELSE 0) + (IF obj.fy.hasreg THEN obj.fy.reg ELSE 0)
RegError(obj) ==
  LET ks == SelectSeq(Children(obj), LAMBDA b : b.hasreg)
  IN Sum([j \in 1..Len(ks) |-> ks[j].reg])

(* ------------------------------- state --------------------------------- *)
VARIABLES
  pc,       \* "new", "idle", "loop" (inside forward), "done" (forward has
            \* returned), "raised" (forward raised), "config_error"
  args,     \* the arguments of the last constructor or update_input_keys call
  self,     \* the instance
  heap,     \* the tensors alive during the current forward call
  data,     \* the caller's tensor bag: key -> reference into heap
  nsteps, i, x, X, Y, FU, FD, FE,   \* the locals of forward
  output,   \* the dict forward returned
  err,      \* the exception raised by the last call, or None
  Xtd, Utd, Dtd,   \* the delay buffers of the time-delay variants' forward
  x_3D,     \* the window state of the multi-step variants' forward
  class_attrs,   \* the class objects: class name -> dict of class-level attributes
  instances,   \* the instances constructed so far, in order
  calls     \* the frames of the forward calls in progress on the instance

vars == <<pc, args, self, heap, data, nsteps, i, x, X, Y, FU, FD, FE, output, err,
          Xtd, Utd, Dtd, x_3D, class_attrs, instances, calls>>
locals == <<nsteps, i, x, X, Y, FU, FD, FE>>
windows == <<Xtd, Utd, Dtd, x_3D>>
others == <<class_attrs, instances, calls>>

NoObject == NewObject(None, << >>, << >>)
NoArgs == [call |-> None]

\* forward's locals before the call assigns them
ClearLocals ==
  /\ nsteps' = 0 /\ i' = 0 /\ x' = 0
  /\ X' = << >> /\ Y' = << >> /\ FU' = << >> /\ FD' = << >> /\ FE' = << >>

(* --------------------------- BlockSSM.forward -------------------------- *)
\* data[self.input_key_map[k]] can be read
CanRead(obj, bag, k) == HasKey(obj.input_key_map, k) /\ Get(obj.input_key_map, k) \in DOMAIN bag
ReadRef(obj, bag, k) == bag[Get(obj.input_key_map, k)]

\* (variant: the loop stops one iteration early)
RangeShort(n) == 0..(n - 2)
\* range(nsteps)
Range(n) == 0..(n - 1)

\* (variant: a bag without the reference key is taken to have horizon 0)
BlockBeginLenient(obj, bag, h) ==
  IF ~CanRead(obj, bag, "x0") THEN [err |-> "KeyError", nsteps |-> 0, x |-> 0]
  ELSE [err |-> None,
        nsteps |-> IF CanRead(obj, bag, "Yf") THEN Len(h[ReadRef(obj, bag, "Yf")]) ELSE 0,
        x |-> ReadRef(obj, bag, "x0")]
\* lines 151-153: nsteps = data[...'Yf'].shape[0]; x = data[...'x0']
BlockBegin(obj, bag, h) ==
  IF ~CanRead(obj, bag, "Yf") \/ ~CanRead(obj, bag, "x0")
  THEN [err |-> "KeyError", nsteps |-> 0, x |-> 0]
  ELSE [err |-> None, nsteps |-> Len(h[ReadRef(obj, bag, "Yf")]),
        x |-> ReadRef(obj, bag, "x0")]

\* One iteration of the loop of BlockSSM.forward (lines 155-176), stage by
\* stage.  A stage maps the record st of the iteration so far to the record
\* after it:
\*   err     the exception raised so far, or None
\*   heap    the heap
\*   x_prev  the reference saved at the top of the iteration
\*   ref/val the running x: an existing tensor object (ref > 0) or a new one
\*           not yet stored (ref = 0), with entries val
\*   yref/yval the same for y
\*   fu, fd, fe the channel outputs of the iteration
Fresh(st, t) == [st EXCEPT !.ref = 0, !.val = t]
Raise(st, k, obj, bag) ==
  [st EXCEPT !.err = IF CanRead(obj, bag, k) THEN "IndexError" ELSE "KeyError"]
\* data[self.input_key_map[k]][j] can be read
CanIndex(obj, bag, h, k, j) == CanRead(obj, bag, k) /\ j < Len(h[ReadRef(obj, bag, k)])
\* data[self.input_key_map[k]][j]
Index(obj, bag, h, k, j) == <<h[ReadRef(obj, bag, k)][j + 1]>>

\* x_prev = x; x = self.fx(x)
StepFx(obj, h, xr) ==
  [err |-> None, heap |-> h, x_prev |-> xr,
   ref |-> IF obj.fx.fn = "pass" THEN xr ELSE 0,
   val |-> IF obj.fx.fn = "pass" THEN h[xr] ELSE Apply(obj.fx, h[xr]),
   yref |-> 0, yval |-> << >>, fu |-> << >>, fd |-> << >>, fe |-> << >>]
\* if self.fu is not None: fu = self.fu(Uf[i]); x = self.xou(x, fu)
StepFu(obj, bag, j, st) ==
  IF st.err # None \/ IsNone(obj.fu) THEN st
  ELSE IF ~CanIndex(obj, bag, st.heap, "Uf", j) THEN Raise(st, "Uf", obj, bag)
  ELSE LET fu == Apply(obj.fu, Index(obj, bag, st.heap, "Uf", j))
       IN [Fresh(st, TorchOp(obj.xou, st.val, fu)) EXCEPT !.fu = fu]
\* if self.fd is not None: fd = self.fd(Df[i]); x = self.xod(x, fd)
StepFd(obj, bag, j, st) ==
  IF st.err # None \/ IsNone(obj.fd) THEN st
  ELSE IF ~CanIndex(obj, bag, st.heap, "Df", j) THEN Raise(st, "Df", obj, bag)
  ELSE LET fd == Apply(obj.fd, Index(obj, bag, st.heap, "Df", j))
       IN [Fresh(st, TorchOp(obj.xod, st.val, fd)) EXCEPT !.fd = fd]
\* (variant: the error map reads the newly computed state)
StepFeNewState(obj, st) ==
  IF st.err # None \/ IsNone(obj.fe) THEN st
  ELSE LET fe == Apply(obj.fe, st.val)
       IN [Fresh(st, TorchOp(obj.xoe, st.val, fe)) EXCEPT !.fe = fe]
\* if self.fe is not None: fe = self.fe(x_prev); x = self.xoe(x, fe)
StepFe(obj, st) ==
  IF st.err # None \/ IsNone(obj.fe) THEN st
  ELSE LET fe == Apply(obj.fe, st.heap[st.x_prev])
       IN [Fresh(st, TorchOp(obj.xoe, st.val, fe)) EXCEPT !.fe = fe]
\* (variant: the residual term is not added)
StepResidualOff(obj, st) == st
\* if self.residual: x += x_prev, which updates the tensor object x in place
StepResidual(obj, st) ==
  IF st.err # None \/ ~obj.residual THEN st
  ELSE [st EXCEPT !.val = TorchOp("add", st.val, st.heap[st.x_prev])]
\* the tensor object x now holds val: a new object is stored in the heap,
\* an existing one is overwritten
StoreX(st) ==
  IF st.err # None THEN st
  ELSE IF st.ref > 0 THEN [st EXCEPT !.heap[st.ref] = st.val]
  ELSE [st EXCEPT !.heap = Append(st.heap, st.val), !.ref = Len(st.heap) + 1]
\* y = self.fy(x)
StepFy(obj, st) ==
  IF st.err # None THEN st
  ELSE IF obj.fy.fn = "pass" THEN [st EXCEPT !.yref = st.ref, !.yval = st.val]
  ELSE [st EXCEPT !.yref = 0, !.yval = Apply(obj.fy, st.val)]
\* if self.fyu is not None: fyu = self.fyu(Uf[i]); y = self.xoyu(y, fyu)
StepFyu(obj, bag, j, st) ==
  IF st.err # None \/ IsNone(obj.fyu) THEN st
  ELSE IF ~CanIndex(obj, bag, st.heap, "Uf", j) THEN Raise(st, "Uf", obj, bag)
  ELSE LET fyu == Apply(obj.fyu, Index(obj, bag, st.heap, "Uf", j))
       IN [st EXCEPT !.yref = 0, !.yval = TorchOp(obj.xoyu, st.yval, fyu)]
StoreY(st) ==
  IF st.err # None \/ st.yref > 0 THEN st
  ELSE [st EXCEPT !.heap = Append(st.heap, st.yval), !.yref = Len(st.heap) + 1]

\* the whole iteration at index j (0-based) from heap h and state reference xr
BlockStep(obj, bag, h, xr, j) ==
  StoreY(StepFyu(obj, bag, j,
    StepFy(obj,
      StoreX(StepResidual(obj,
        StepFe(obj,
          StepFd(obj, bag, j,
            StepFu(obj, bag, j,
              StepFx(obj, h, xr)))))))))

\* torch.stack copies the entries of the listed tensors
Stack(h, refs) == [j \in 1..Len(refs) |-> h[refs[j]]]

\* lines 177-183: the non-empty lists are paired, in order, with the output
\* keys after the first, and the first output key gets reg_error()
Zip(a, b) == [j \in 1..(IF Len(a) < Len(b) THEN Len(a) ELSE Len(b)) |-> <<a[j], b[j]>>]
\* (variant: the empty lists are not removed before the pairing)
BlockOutputUnfiltered(obj, h, xs, ys, fus, fds, fes) ==
  LET lists == <<Stack(h, xs), Stack(h, ys), fus, fds, fes>>
      named == Zip(Tail(obj.output_keys), lists)
  IN DictFromItems(Append(named, <<obj.output_keys[1], RegError(obj)>>))
BlockOutput(obj, h, xs, ys, fus, fds, fes) ==
  LET lists == <<Stack(h, xs), Stack(h, ys), fus, fds, fes>>
      tensor_lists == SelectSeq(lists, LAMBDA t : t # << >>)
      named == Zip(Tail(obj.output_keys), tensor_lists)
  IN DictFromItems(Append(named, <<obj.output_keys[1], RegError(obj)>>))

(* ------------------------- the driver's inputs ------------------------- *)
\* widths the driver declares for its sub-maps
MaxWidth == 2
Widths == 1..MaxWidth

\* the sub-map of each slot in the default configuration: width 1, identity
\* weight, a regularization accessor with a value that identifies the slot
Lin(slot) ==
  Block(1, 1, "linear", 1, TRUE,
        CASE slot = "fx" -> 1 [] slot = "fy" -> 2 [] slot = "fu" -> 4
          [] slot = "fd" -> 8 [] slot = "fe" -> 16 [] slot = "fyu" -> 32)
Opt(slot) == {NoBlock, Lin(slot)}

DefaultArgs ==
  [fx |-> Lin("fx"), fy |-> Lin("fy"), fu |-> NoBlock, fd |-> NoBlock,
   fe |-> NoBlock, fyu |-> NoBlock,
   xou |-> "add", xod |-> "add", xoe |-> "add", xoyu |-> "add",
   residual |-> FALSE, name |-> "block_ssm", input_key_map |-> << >>]

\* every choice of optional channels, on top of DefaultArgs
ChannelArgs ==
  {[DefaultArgs EXCEPT !.fu = u, !.fd = d, !.fe = e, !.fyu = yu] :
     u \in Opt("fu"), d \in Opt("fd"), e \in Opt("fe"), yu \in Opt("fyu")}

\* simulation: channels, residual mode, a state transition that returns a new
\* tensor or its own argument
SimArgs ==
  {[a EXCEPT !.residual = r, !.fx.fn = f] :
     a \in ChannelArgs, r \in BOOLEAN, f \in {"linear", "pass"}}

\* rename mappings: identities over one or two keys in either order, a
\* rename, a collision of two defaults, a key that is no default
KeyNames == {"x0", "Yf", "Uf", "Df"}
IdentityMaps ==
  {<< >>} \cup {<< <<k, k>> >> : k \in KeyNames}
          \cup {<< <<p[1], p[1]>>, <<p[2], p[2]>> >> :
                   p \in {q \in {"x0", "Yf"} \X KeyNames : q[1] # q[2]}}
KeyMaps ==
  IdentityMaps \cup
  { << <<"x0", "x0_estim">> >>, << <<"x0", "Yf">> >>,
    << <<"x0_estim", "x0">> >>, << <<"Uf", "Df">> >> }
\* the mappings the driver passes to update_input_keys after construction
UpdateMaps ==
  { << >>, << <<"x0", "x0_estim">> >>, << <<"x0", "Yf">> >>, << <<"x0_estim", "x0">> >> }
\* key handling: channels that add keys, names, rename mappings
KeyArgs ==
  {[a EXCEPT !.name = n, !.input_key_map = m] :
     a \in {c \in ChannelArgs : IsNone(c.fyu)}, n \in {None, "estim"}, m \in KeyMaps}

\* dimensions: every declared width of the sub-maps that check_features or
\* the spec's construction invariants mention
DimArgs ==
  {[a EXCEPT !.fx.in_features = xi, !.fx.out_features = xo, !.fy.in_features = yi,
             !.fu.out_features = IF IsNone(a.fu) THEN 0 ELSE uo,
             !.fd.out_features = IF IsNone(a.fd) THEN 0 ELSE do,
             !.fe.out_features = IF IsNone(a.fe) THEN 0 ELSE eo] :
     a \in {c \in ChannelArgs : IsNone(c.fyu)},
     xi \in Widths, xo \in Widths, yi \in Widths,
     uo \in Widths, do \in Widths, eo \in Widths}

\* regularization: which sub-maps lack reg_error(): none, one, or all
Slots == {"fx", "fy", "fu", "fd", "fe", "fyu"}
RegSubsets == {{}, Slots} \cup {{slot} : slot \in Slots}
WithoutReg(b) == IF IsNone(b) THEN b ELSE [b EXCEPT !.hasreg = FALSE, !.reg = 0]
RegArgs ==
  {[a EXCEPT !.fx = IF "fx" \in S THEN WithoutReg(@) ELSE @,
             !.fy = IF "fy" \in S THEN WithoutReg(@) ELSE @,
             !.fu = IF "fu" \in S THEN WithoutReg(@) ELSE @,
             !.fd = IF "fd" \in S THEN WithoutReg(@) ELSE @,
             !.fe = IF "fe" \in S THEN WithoutReg(@) ELSE @,
             !.fyu = IF "fyu" \in S THEN WithoutReg(@) ELSE @] :
     a \in ChannelArgs, S \in RegSubsets}

\* order of operations: every channel present, sub-maps with distinct
\* weights, operators other than the default one (the error channel is not
\* combined by multiplication, which would square the state at every step)
Ops == {"sub", "mul"}
OrderArgs ==
  {[DefaultArgs EXCEPT !.fx = [Lin("fx") EXCEPT !.weight = 2],
                       !.fy = [Lin("fy") EXCEPT !.weight = 2],
                       !.fu = Lin("fu"), !.fd = Lin("fd"),
                       !.fe = [Lin("fe") EXCEPT !.weight = 3],
                       !.fyu = Lin("fyu"),
                       !.xou = ou, !.xod = od, !.xoe = oe, !.xoyu = oyu,
                       !.residual = r] :
     ou \in Ops, od \in Ops, oe \in {"add", "sub"}, oyu \in Ops, r \in BOOLEAN}

BlockArgs == SimArgs \cup KeyArgs \cup DimArgs \cup RegArgs \cup OrderArgs

\* the tensor bags the driver passes to forward: reference horizon n, initial
\* state entry v, and at most one key left out
BagKeys == {"x0", "x0_estim", "Yf", "Uf", "Df"}
BagTensor(k, n, v) ==
  CASE k = "x0" -> <<v>>
    [] k = "x0_estim" -> <<v + 1>>
    [] k = "Yf" -> [j \in 1..n |-> 0]
    [] k = "Uf" -> [j \in 1..n |-> j]
    [] k = "Df" -> [j \in 1..n |-> 1]
Bag(n, v, dropped) == [k \in BagKeys \ {dropped} |-> BagTensor(k, n, v)]
DriverBags ==
  {Bag(n, v, dropped) : n \in 0..MaxN, v \in 0..MaxX0, dropped \in {None, "x0", "Yf", "Uf"}}

\* the bag's tensors are placed in the heap in a fixed key order
KeyOrder == <<"x0", "x0_estim", "Yf", "Uf", "Df">>
BagKeySeq(bag) == SelectSeq(KeyOrder, LAMBDA k : k \in DOMAIN bag)
HeapOf(bag) == [j \in 1..Len(BagKeySeq(bag)) |-> bag[BagKeySeq(bag)[j]]]
RefsOf(bag) == [k \in DOMAIN bag |-> CHOOSE j \in 1..Len(BagKeySeq(bag)) : BagKeySeq(bag)[j] = k]

(* --------------------------- class objects ----------------------------- *)
\* the class-level attributes as the class statements define them (lines
\* 84-85, 190-191, 451, 551); a time-delay class defines its input keys and
\* inherits the output keys
BaseOutputKeys == <<"reg_error", "X_pred", "Y_pred">>
ClassDefs ==
  [c \in {"BlockSSM", "BlackSSM", "TimeDelayBlockSSM", "TimeDelayBlackSSM"} |->
     CASE c \in {"BlockSSM", "BlackSSM"} ->
            << <<"DEFAULT_INPUT_KEYS", <<"x0", "Yf">> >>,
               <<"DEFAULT_OUTPUT_KEYS", BaseOutputKeys>> >>
       [] c \in {"TimeDelayBlockSSM", "TimeDelayBlackSSM"} ->
            << <<"DEFAULT_INPUT_KEYS", <<"Xtd", "Yf">> >> >>]
\* the base class named in the class statement
Parent(c) ==
  CASE c = "TimeDelayBlockSSM" -> "BlockSSM" [] c = "TimeDelayBlackSSM" -> "BlackSSM"

(* ------------------------ concurrent forward calls --------------------- *)
\* the two callers, and the frame of a caller that is not inside forward
Calls == {1, 2}
IdleCall ==
  [pc |-> "idle", bag |-> << >>, data |-> << >>, nsteps |-> 0, i |-> 0, x |-> 0,
   X |-> << >>, Y |-> << >>, FU |-> << >>, FD |-> << >>, FE |-> << >>,
   Xtd |-> << >>, Utd |-> << >>, Dtd |-> << >>, x_3D |-> << >>,
   output |-> << >>, err |-> None]

(* ------------------------------ actions -------------------------------- *)
Init ==
  /\ pc = "new" /\ args = NoArgs /\ self = NoObject
  /\ heap = << >> /\ data = << >>
  /\ nsteps = 0 /\ i = 0 /\ x = 0
  /\ X = << >> /\ Y = << >> /\ FU = << >> /\ FD = << >> /\ FE = << >>
  /\ output = << >> /\ err = None
  /\ Xtd = << >> /\ Utd = << >> /\ Dtd = << >> /\ x_3D = << >>
  /\ class_attrs = ClassDefs /\ instances = << >> /\ calls = [c \in Calls |-> IdleCall]

\* model = BlockSSM(...): a failed assertion leaves no instance
Construct ==
  /\ pc = "new"
  /\ \E a \in BlockArgs :
       LET r == BlockSSMInit(a)
       IN /\ args' = [call |-> "BlockSSM", a |-> a]
          /\ IF r.ok
             THEN pc' = "idle" /\ self' = r.obj /\ err' = None
             ELSE pc' = "config_error" /\ self' = NoObject /\ err' = "AssertionError"
  /\ UNCHANGED <<heap, data, locals, output, windows, others>>

\* model.update_input_keys(m) between forward calls
UpdateKeys ==
  /\ pc = "idle"
  /\ \E m \in UpdateMaps :
       LET r == UpdateInputKeys(self, m)
       IN /\ args' = [call |-> "update_input_keys", m |-> m]
          /\ self' = r.obj
          /\ IF r.ok THEN pc' = "idle" /\ err' = None
             ELSE pc' = "config_error" /\ err' = "AssertionError"
  /\ UNCHANGED <<heap, data, locals, output, windows, others>>

\* model(data), lines 151-153: the horizon and the initial state are read
ForwardBegin ==
  /\ pc = "idle"
  /\ \E bag \in DriverBags :
       LET r == BlockBegin(self, RefsOf(bag), HeapOf(bag))
       IN /\ heap' = HeapOf(bag) /\ data' = RefsOf(bag)
          /\ pc' = IF r.err = None THEN "loop" ELSE "raised"
          /\ err' = r.err /\ nsteps' = r.nsteps /\ x' = r.x
  /\ i' = 0 /\ X' = << >> /\ Y' = << >> /\ FU' = << >> /\ FD' = << >> /\ FE' = << >>
  /\ output' = << >>
  /\ UNCHANGED <<args, self, windows, others>>

\* one iteration of the loop, lines 154-176
ForwardStep ==
  /\ pc = "loop" /\ i \in Range(nsteps)
  /\ LET r == BlockStep(self, data, heap, x, i)
     IN /\ heap' = r.heap
        /\ IF r.err = None
           THEN /\ pc' = "loop" /\ err' = None
                /\ x' = r.ref /\ i' = i + 1
                /\ X' = Append(X, r.ref) /\ Y' = Append(Y, r.yref)
                /\ FU' = IF ~IsNone(self.fu) THEN Append(FU, r.fu) ELSE FU
                /\ FD' = IF ~IsNone(self.fd) THEN Append(FD, r.fd) ELSE FD
                /\ FE' = IF ~IsNone(self.fe) THEN Append(FE, r.fe) ELSE FE
                /\ UNCHANGED nsteps
           ELSE /\ pc' = "raised" /\ err' = r.err
                /\ ClearLocals
  /\ UNCHANGED <<args, self, data, output, windows, others>>

\* lines 177-183: the lists are stacked and the bag is returned
ForwardEnd ==
  /\ pc = "loop" /\ i \notin Range(nsteps)
  /\ output' = BlockOutput(self, heap, X, Y, FU, FD, FE)
  /\ pc' = "done"
  /\ UNCHANGED <<args, self, heap, data, locals, err, windows, others>>

\* the caller has taken the returned bag, or caught the exception forward
\* raised (the training loop may skip a batch), and drops its tensors
Return ==
  /\ pc \in {"done", "raised"}
  /\ pc' = "idle" /\ err' = None
  /\ heap' = << >> /\ data' = << >> /\ output' = << >>
  /\ ClearLocals
  /\ UNCHANGED <<args, self, windows, others>>

Next == Construct \/ UpdateKeys \/ ForwardBegin \/ ForwardStep \/ ForwardEnd \/ Return

Spec == Init /\ [][Next]_vars

(* ======================= the other SSM variants ======================== *)
(* In the variants a tensor with a time axis is the sequence of its        *)
(* entries along that axis (batch size 1, one feature per sample), and a   *)
(* tensor without one (a state x, a flattened window) is its row of        *)
(* features.  The caller's bag maps a key to the tensor itself.            *)

(* ---------------------------- bounds ----------------------------------- *)
\* largest delay depth (timedelay) the driver configures
MaxT == 2
\* longest initial window (leading-axis length of x0) the driver supplies to
\* the multi-step variants
MaxW == 2

(* --------------------------- Python slices ----------------------------- *)
\* s[-n:] for n >= 0: -0 is 0, so s[-0:] is the whole of s
LastSlice(s, n) == IF n = 0 \/ n >= Len(s) THEN s ELSE SubSeq(s, Len(s) - n + 1, Len(s))
\* s[lo:hi] for 0 <= lo <= hi
Slice(s, lo, hi) == SubSeq(s, lo + 1, IF hi < Len(s) THEN hi ELSE Len(s))
\* data[self.input_key_map[k]]
ReadTensor(obj, bag, k) == bag[Get(obj.input_key_map, k)]

(* ------------------------- sub-maps on a row --------------------------- *)
\* a Linear sub-map multiplies a row of in_features features by its weight
\* matrix; torch raises RuntimeError for a row of any other width
Accepts(b, row) == Len(row) = b.in_features
\* the weight matrix of the driver's sub-maps has the coefficient
\* weight * j for input feature j, on every output feature
RECURSIVE Weighted(_)
Weighted(row) ==
  IF row = << >> THEN 0
  ELSE Weighted(SubSeq(row, 1, Len(row) - 1)) + Len(row) * row[Len(row)]
Feed(b, row) == [k \in 1..b.out_features |-> b.weight * Weighted(row)]
\* the operands of an elementwise operator can be broadcast together
CanBroadcast(a, b) == Len(a) = Len(b) \/ Len(a) = 1 \/ Len(b) = 1

\* an integrator (a callable with out_features, given by the caller) returns
\* the next state from a state or from a window of states, and for the
\* non-autonomous forms from an input sample and a time sample as well
Integrate(b, window) == <<b.weight * Weighted(window)>>
IntegrateNonAuto(b, window, u, t) == <<b.weight * Weighted(window) + Weighted(u) + Weighted(t)>>

(* --------------------------- constructors ------------------------------ *)
\* the attributes of an instance of a variant before __init__ assigns them
NewVariant(cls, default_in, default_out) ==
  NewObject(cls, default_in, default_out)
    @@ [timedelay |-> 0, extra_inputs |-> << >>, online_flag |-> FALSE]

\* TimeDelayBlockSSM.check_features, which BlockSSM.__init__ calls in place
\* of its own: TRUE when no assertion fails
TimeDelayBlockCheckFeatures(obj) ==
  /\ ~IsNone(obj.fu) => obj.fu.out_features = obj.fx.out_features
  /\ ~IsNone(obj.fd) => obj.fd.out_features = obj.fx.out_features

\* TimeDelayBlockSSM.__init__: the past keys are added to the instance's
\* default input keys before BlockSSM.__init__ adds the future keys
TimeDelayBlockDefaultInputKeys(a) ==
  <<"Xtd", "Yf">> \o (IF ~IsNone(a.fu) THEN <<"Up">> ELSE << >>)
                  \o (IF ~IsNone(a.fd) THEN <<"Dp">> ELSE << >>)
                  \o (IF ~IsNone(a.fu) THEN <<"Uf">> ELSE << >>)
                  \o (IF ~IsNone(a.fd) THEN <<"Df">> ELSE << >>)
TimeDelayBlockSSMInit(a) ==
  LET o0 == NewVariant("TimeDelayBlockSSM", TimeDelayBlockDefaultInputKeys(a),
                       BlockDefaultOutputKeys(a))
      r == SSMInit(o0, a.input_key_map, a.name)
      o1 == [r.obj EXCEPT !.fx = a.fx, !.fy = a.fy, !.fu = a.fu, !.fd = a.fd, !.fe = a.fe,
                          !.nx = a.fx.out_features, !.ny = a.fy.out_features,
                          !.nu = IF ~IsNone(a.fu) THEN a.fu.in_features ELSE 0,
                          !.nd = IF ~IsNone(a.fd) THEN a.fd.in_features ELSE 0]
      o2 == [o1 EXCEPT !.residual = a.residual, !.xou = a.xou, !.xod = a.xod,
                       !.xoe = a.xoe, !.timedelay = a.timedelay]
  IN IF ~r.ok THEN r
     ELSE IF ~TimeDelayBlockCheckFeatures(o1) THEN [ok |-> FALSE, obj |-> o1]
     ELSE [ok |-> TRUE, obj |-> o2]

\* BlackSSM.__init__ for the class cls with class-level default input keys
\* class_keys
BlackSSMInit(cls, class_keys, a) ==
  LET o0 == NewVariant(cls, class_keys \o a.extra_inputs,
                       <<"reg_error", "X_pred", "Y_pred">>
                         \o (IF ~IsNone(a.fe) THEN <<"fE">> ELSE << >>))
      r == SSMInit(o0, a.input_key_map, a.name)
  IN IF ~r.ok THEN r
     ELSE [ok |-> TRUE,
           obj |-> [r.obj EXCEPT !.extra_inputs = a.extra_inputs,
                                 !.fx = a.fx, !.fy = a.fy, !.fe = a.fe, !.fyu = a.fyu,
                                 !.nx = a.fx.out_features, !.ny = a.fy.out_features,
                                 !.xoe = a.xoe, !.xoyu = a.xoyu]]
\* TimeDelayBlackSSM.__init__
TimeDelayBlackSSMInit(a) ==
  LET r == BlackSSMInit("TimeDelayBlackSSM", <<"Xtd", "Yf">>, [a EXCEPT !.fyu = NoBlock])
  IN IF ~r.ok THEN r ELSE [ok |-> TRUE, obj |-> [r.obj EXCEPT !.timedelay = a.timedelay]]

\* ODEAuto.__init__ for the class cls
ODEAutoInit(cls, class_keys, a) ==
  LET r == SSMInit(NewVariant(cls, class_keys, <<"reg_error", "X_pred", "Y_pred">>),
                   a.input_key_map, a.name)
  IN IF ~r.ok THEN r
     ELSE [ok |-> TRUE,
           obj |-> [r.obj EXCEPT !.fx = a.fx, !.fy = a.fy,
                                 !.nx = a.fx.out_features, !.ny = a.fy.out_features]]
\* ODENonAuto.__init__ for the class cls
ODENonAutoInit(cls, class_keys, a, online_flag) ==
  LET r == SSMInit(NewVariant(cls, class_keys \o a.extra_inputs,
                              <<"reg_error", "X_pred", "Y_pred">>),
                   a.input_key_map, a.name)
  IN IF ~r.ok THEN r
     ELSE [ok |-> TRUE,
           obj |-> [r.obj EXCEPT !.extra_inputs = a.extra_inputs,
                                 !.fx = a.fx, !.fy = a.fy,
                                 !.nx = a.fx.out_features, !.ny = a.fy.out_features,
                                 !.online_flag = online_flag]]

\* the constructor of the class named in the arguments
VariantInit(a) ==
  CASE a.cls = "TimeDelayBlockSSM" -> TimeDelayBlockSSMInit(a)
    [] a.cls = "TimeDelayBlackSSM" -> TimeDelayBlackSSMInit(a)
    [] a.cls = "BlackSSM" -> BlackSSMInit("BlackSSM", <<"x0", "Yf">>, a)
    [] a.cls = "ODEAuto" -> ODEAutoInit("ODEAuto", <<"x0", "Yf">>, a)
    [] a.cls = "ODENonAuto" ->
         ODENonAutoInit("ODENonAuto", <<"x0", "Yf", "Time">>, a, a.online_flag)
    [] a.cls = "ODEAuto_MultiStep" ->
         ODEAutoInit("ODEAuto_MultiStep", <<"x0", "Yf", "Yp">>, a)
    [] a.cls = "ODENonAuto_MultiStep" ->
         ODENonAutoInit("ODENonAuto_MultiStep", <<"x0", "Yf", "Yp", "Time">>, a, FALSE)

(* ------------------------ forward: before the loop --------------------- *)
\* what forward has bound when its loop starts: err is the exception raised
\* before the loop, or None
NoFrame(e) ==
  [err |-> e, nsteps |-> 0, x |-> 0,
   Xtd |-> << >>, Utd |-> << >>, Dtd |-> << >>, x_3D |-> << >>]
\* 'k1' in self.input_key_map and 'k2' in self.input_key_map
HasBoth(obj, k1, k2) == HasKey(obj.input_key_map, k1) /\ HasKey(obj.input_key_map, k2)
\* every key of extra_inputs, read unmapped (data[k]), is in the bag
ExtraInBag(obj, bag) == \A k \in SeqRange(obj.extra_inputs) : k \in DOMAIN bag

\* TimeDelayBlockSSM.forward lines 498-505 and TimeDelayBlackSSM.forward
\* lines 575-582 (the same statements)
TimeDelayBegin(obj, bag) ==
  LET u == HasBoth(obj, "Uf", "Up")
      d == HasBoth(obj, "Df", "Dp")
  IN IF \/ ~CanRead(obj, bag, "Yf")
        \/ u /\ (~CanRead(obj, bag, "Up") \/ ~CanRead(obj, bag, "Uf"))
        \/ d /\ (~CanRead(obj, bag, "Dp") \/ ~CanRead(obj, bag, "Df"))
        \/ ~CanRead(obj, bag, "Xtd")
     THEN NoFrame("KeyError")
     ELSE [NoFrame(None) EXCEPT
             !.nsteps = Len(ReadTensor(obj, bag, "Yf")),
             !.Utd = IF u THEN LastSlice(ReadTensor(obj, bag, "Up"), obj.timedelay)
                                 \o ReadTensor(obj, bag, "Uf")
                     ELSE << >>,
             !.Dtd = IF d THEN LastSlice(ReadTensor(obj, bag, "Dp"), obj.timedelay)
                                 \o ReadTensor(obj, bag, "Df")
                     ELSE << >>,
             !.Xtd = ReadTensor(obj, bag, "Xtd")]

\* (variant: a bag without the reference key is taken to have horizon 0)
SingleStepBeginLenient(obj, bag) ==
  IF ~CanRead(obj, bag, "x0") THEN NoFrame("KeyError")
  ELSE [NoFrame(None) EXCEPT
          !.nsteps = IF CanRead(obj, bag, "Yf") THEN Len(ReadTensor(obj, bag, "Yf")) ELSE 0,
          !.x = ReadTensor(obj, bag, "x0")]
\* BlackSSM.forward and ODEAuto.forward: nsteps from 'Yf', x from 'x0'
SingleStepBegin(obj, bag) ==
  IF ~CanRead(obj, bag, "Yf") \/ ~CanRead(obj, bag, "x0") THEN NoFrame("KeyError")
  ELSE [NoFrame(None) EXCEPT !.nsteps = Len(ReadTensor(obj, bag, "Yf")),
                             !.x = ReadTensor(obj, bag, "x0")]
\* ODENonAuto.forward lines 331-335: 'Time' and the extra inputs are read too
NonAutoBegin(obj, bag) ==
  IF ~CanRead(obj, bag, "Time") \/ ~ExtraInBag(obj, bag) THEN NoFrame("KeyError")
  ELSE SingleStepBegin(obj, bag)

\* (variant: the multi-step forward takes the reference length from 'Yf')
MultiStepBeginFromYf(obj, bag) ==
  IF ~CanRead(obj, bag, "Yf") \/ ~CanRead(obj, bag, "x0") THEN NoFrame("KeyError")
  ELSE [NoFrame(None) EXCEPT
          !.nsteps = Len(ReadTensor(obj, bag, "Yf")) - Len(ReadTensor(obj, bag, "x0")) + 1,
          !.x_3D = ReadTensor(obj, bag, "x0")]
\* ODEAuto_MultiStep.forward lines 382-386: the loop runs over
\* range(nsteps_p - input_window_size + 1); nsteps holds that bound
MultiStepBegin(obj, bag) ==
  IF ~CanRead(obj, bag, "Yp") \/ ~CanRead(obj, bag, "x0") THEN NoFrame("KeyError")
  ELSE [NoFrame(None) EXCEPT
          !.nsteps = Len(ReadTensor(obj, bag, "Yp")) - Len(ReadTensor(obj, bag, "x0")) + 1,
          !.x_3D = ReadTensor(obj, bag, "x0")]
\* ODENonAuto_MultiStep.forward lines 426-433
NonAutoMultiStepBegin(obj, bag) ==
  IF ~CanRead(obj, bag, "Yp") \/ ~CanRead(obj, bag, "x0") THEN NoFrame("KeyError")
  ELSE IF ~CanRead(obj, bag, "Time") \/ ~ExtraInBag(obj, bag) THEN NoFrame("KeyError")
  ELSE MultiStepBegin(obj, bag)

VariantBegin(obj, bag) ==
  CASE obj.cls \in {"TimeDelayBlockSSM", "TimeDelayBlackSSM"} -> TimeDelayBegin(obj, bag)
    [] obj.cls \in {"BlackSSM", "ODEAuto"} -> SingleStepBegin(obj, bag)
    [] obj.cls = "ODENonAuto" -> NonAutoBegin(obj, bag)
    [] obj.cls = "ODEAuto_MultiStep" -> MultiStepBegin(obj, bag)
    [] obj.cls = "ODENonAuto_MultiStep" -> NonAutoMultiStepBegin(obj, bag)

(* ------------------------ forward: one iteration ----------------------- *)
\* The record of an iteration, passed from statement to statement:
\*   err        the exception raised so far, or None
\*   x_prev     the state saved at the top of the iteration
\*   x_delayed  the flattened state window
\*   features   the row the state transition reads
\*   val, y     the running x and y
\*   fu, fd, fe the channel outputs
\*   Xtd, x_3D  the delay buffer and the window state
Step0 ==
  [err |-> None, x_prev |-> << >>, x_delayed |-> << >>, features |-> << >>,
   val |-> << >>, y |-> << >>, fu |-> << >>, fd |-> << >>, fe |-> << >>,
   Xtd |-> << >>, x_3D |-> << >>]
Failed(st, e) == [st EXCEPT !.err = e]
\* x = op(x, t)
Combine(op, st, t) ==
  IF ~CanBroadcast(st.val, t) THEN Failed(st, "RuntimeError")
  ELSE [st EXCEPT !.val = TorchOp(op, st.val, t)]

\* x_prev = Xtd[-1]; x_delayed = torch.cat([Xtd[k, :, :] ...], dim=-1)
TDStart(xtd) ==
  IF xtd = << >> THEN Failed(Step0, "IndexError")
  ELSE [Step0 EXCEPT !.x_prev = <<xtd[Len(xtd)]>>, !.x_delayed = xtd,
                     !.features = xtd, !.Xtd = xtd]
\* x = self.fx(...) on the row in features
FxOfFeatures(obj, st) ==
  IF st.err # None THEN st
  ELSE IF ~Accepts(obj.fx, st.features) THEN Failed(st, "RuntimeError")
  ELSE [st EXCEPT !.val = Feed(obj.fx, st.features)]
\* Utd_i = Utd[i:i + self.timedelay + 1], flattened
DelayWindow(obj, td, j) == Slice(td, j, j + obj.timedelay + 1)
\* lines 510-515
TDFu(obj, utd, j, st) ==
  IF st.err # None \/ IsNone(obj.fu) THEN st
  ELSE IF ~Accepts(obj.fu, DelayWindow(obj, utd, j)) THEN Failed(st, "RuntimeError")
  ELSE [Combine(obj.xou, st, Feed(obj.fu, DelayWindow(obj, utd, j)))
          EXCEPT !.fu = Feed(obj.fu, DelayWindow(obj, utd, j))]
\* lines 516-521
TDFd(obj, dtd, j, st) ==
  IF st.err # None \/ IsNone(obj.fd) THEN st
  ELSE IF ~Accepts(obj.fd, DelayWindow(obj, dtd, j)) THEN Failed(st, "RuntimeError")
  ELSE [Combine(obj.xod, st, Feed(obj.fd, DelayWindow(obj, dtd, j)))
          EXCEPT !.fd = Feed(obj.fd, DelayWindow(obj, dtd, j))]
\* fe = self.fe(x_delayed); x = self.xoe(x, fe)
TDFe(obj, st) ==
  IF st.err # None \/ IsNone(obj.fe) THEN st
  ELSE IF ~Accepts(obj.fe, st.x_delayed) THEN Failed(st, "RuntimeError")
  ELSE [Combine(obj.xoe, st, Feed(obj.fe, st.x_delayed)) EXCEPT !.fe = Feed(obj.fe, st.x_delayed)]
\* if self.residual: x += x_prev
TDResidual(obj, st) ==
  IF st.err # None \/ ~obj.residual THEN st
  ELSE Combine("add", st, st.x_prev)
\* (variant: the new state is appended and no entry is dropped)
TDSlideKeepsOldest(st) ==
  IF st.err # None THEN st
  ELSE IF Len(st.val) # 1 THEN Failed(st, "RuntimeError")
  ELSE [st EXCEPT !.Xtd = Append(st.Xtd, st.val[1])]
\* Xtd = torch.cat([Xtd, x.unsqueeze(0)])[1:]; torch.cat raises unless x has
\* the width of the buffer's samples
TDSlide(st) ==
  IF st.err # None THEN st
  ELSE IF Len(st.val) # 1 THEN Failed(st, "RuntimeError")
  ELSE [st EXCEPT !.Xtd = Tail(Append(st.Xtd, st.val[1]))]
\* y = self.fy(x_delayed)
TDFy(obj, st) ==
  IF st.err # None THEN st
  ELSE IF ~Accepts(obj.fy, st.x_delayed) THEN Failed(st, "RuntimeError")
  ELSE [st EXCEPT !.y = Feed(obj.fy, st.x_delayed)]

\* TimeDelayBlockSSM.forward lines 507-531
TimeDelayBlockStep(obj, xtd, utd, dtd, j) ==
  TDFy(obj,
    TDSlide(TDResidual(obj,
      TDFe(obj,
        TDFd(obj, dtd, j,
          TDFu(obj, utd, j,
            FxOfFeatures(obj, TDStart(xtd))))))))

\* TimeDelayBlackSSM.forward lines 586-594: the input and disturbance windows
\* are appended to the state window
TDFeatures(obj, utd, dtd, j, st) ==
  IF st.err # None THEN st
  ELSE [st EXCEPT !.features =
          st.x_delayed
            \o (IF HasBoth(obj, "Uf", "Up") THEN DelayWindow(obj, utd, j) ELSE << >>)
            \o (IF HasBoth(obj, "Df", "Dp") THEN DelayWindow(obj, dtd, j) ELSE << >>)]
\* TimeDelayBlackSSM.forward lines 584-603: the buffer slides before the
\* error channel is applied
TimeDelayBlackStep(obj, xtd, utd, dtd, j) ==
  TDFy(obj,
    TDFe(obj,
      TDSlide(
        FxOfFeatures(obj,
          TDFeatures(obj, utd, dtd, j, TDStart(xtd))))))

\* BlackSSM.forward: x_prev = x; xplus = torch.cat([x] + [data[k][i] ...])
BlackStart(obj, bag, xrow, j) ==
  IF ~ExtraInBag(obj, bag) THEN Failed(Step0, "KeyError")
  ELSE IF \E k \in SeqRange(obj.extra_inputs) : j >= Len(bag[k]) THEN Failed(Step0, "IndexError")
  ELSE [Step0 EXCEPT !.x_prev = xrow,
          !.features = xrow \o [q \in 1..Len(obj.extra_inputs) |-> bag[obj.extra_inputs[q]][j + 1]]]
\* fe = self.fe(x_prev); x = self.xoe(x, fe)
BlackFe(obj, st) ==
  IF st.err # None \/ IsNone(obj.fe) THEN st
  ELSE IF ~Accepts(obj.fe, st.x_prev) THEN Failed(st, "RuntimeError")
  ELSE [Combine(obj.xoe, st, Feed(obj.fe, st.x_prev)) EXCEPT !.fe = Feed(obj.fe, st.x_prev)]
\* y = self.fy(x)
FyOfState(obj, st) ==
  IF st.err # None THEN st
  ELSE IF ~Accepts(obj.fy, st.val) THEN Failed(st, "RuntimeError")
  ELSE [st EXCEPT !.y = Feed(obj.fy, st.val)]
\* fyu = self.fyu(xplus); y = self.xoyu(y, fyu)
BlackFyu(obj, st) ==
  IF st.err # None \/ IsNone(obj.fyu) THEN st
  ELSE IF ~Accepts(obj.fyu, st.features) \/ ~CanBroadcast(st.y, Feed(obj.fyu, st.features))
       THEN Failed(st, "RuntimeError")
  ELSE [st EXCEPT !.y = TorchOp(obj.xoyu, st.y, Feed(obj.fyu, st.features))]
BlackStep(obj, bag, xrow, j) ==
  BlackFyu(obj, FyOfState(obj, BlackFe(obj, FxOfFeatures(obj, BlackStart(obj, bag, xrow, j)))))

\* ODEAuto.forward lines 288-289
ODEAutoStep(obj, xrow) ==
  FyOfState(obj, [Step0 EXCEPT !.val = Integrate(obj.fx, xrow)])

\* Time and inputs as sequences of rows along the time axis (lines 333-335)
TimeRows(obj, bag) == [t \in 1..Len(ReadTensor(obj, bag, "Time")) |-> <<ReadTensor(obj, bag, "Time")[t]>>]
InputRows(obj, bag) ==
  IF Len(obj.extra_inputs) # 0
  THEN [t \in 1..Len(bag[obj.extra_inputs[1]]) |->
          [q \in 1..Len(obj.extra_inputs) |-> bag[obj.extra_inputs[q]][t]]]
  ELSE TimeRows(obj, bag)
\* the rows of a slice along the time axis, side by side
RECURSIVE Flatten(_)
Flatten(rows) == IF rows = << >> THEN << >> ELSE rows[1] \o Flatten(Tail(rows))
\* (variant: the online branch integrates at the last step as well)
ODENonAutoStepNoGap(obj, bag, xrow, n, j) ==
  IF obj.online_flag
  THEN FyOfState(obj, [Step0 EXCEPT !.val =
         IntegrateNonAuto(obj.fx, xrow, Flatten(Slice(InputRows(obj, bag), j, j + 2)),
                          Flatten(Slice(TimeRows(obj, bag), j, j + 2)))])
  ELSE IF j >= Len(InputRows(obj, bag)) \/ j >= Len(TimeRows(obj, bag))
       THEN Failed(Step0, "IndexError")
       ELSE FyOfState(obj, [Step0 EXCEPT !.val =
              IntegrateNonAuto(obj.fx, xrow, InputRows(obj, bag)[j + 1], TimeRows(obj, bag)[j + 1])])
\* ODENonAuto.forward lines 338-345
ODENonAutoStep(obj, bag, xrow, n, j) ==
  IF obj.online_flag
  THEN IF j = n - 1 THEN FyOfState(obj, [Step0 EXCEPT !.val = xrow])
       ELSE FyOfState(obj, [Step0 EXCEPT !.val =
              IntegrateNonAuto(obj.fx, xrow, Flatten(Slice(InputRows(obj, bag), j, j + 2)),
                               Flatten(Slice(TimeRows(obj, bag), j, j + 2)))])
  ELSE IF j >= Len(InputRows(obj, bag)) \/ j >= Len(TimeRows(obj, bag))
       THEN Failed(Step0, "IndexError")
       ELSE FyOfState(obj, [Step0 EXCEPT !.val =
              IntegrateNonAuto(obj.fx, xrow, InputRows(obj, bag)[j + 1], TimeRows(obj, bag)[j + 1])])

\* (variant: the new state is appended and the oldest is kept)
WindowShiftKeepsOldest(st, window) ==
  IF st.err # None THEN st
  ELSE [st EXCEPT !.x_3D = window \o st.val]
\* x_3D = torch.cat([x_3D[1:, :, :], torch.unsqueeze(x_2D, dim=0)], dim=0)
WindowShift(st, window) ==
  IF st.err # None THEN st
  ELSE [st EXCEPT !.x_3D = SubSeq(window, 2, Len(window)) \o st.val]
\* ODEAuto_MultiStep.forward lines 387-392
MultiStepStep(obj, window) ==
  WindowShift(FyOfState(obj, [Step0 EXCEPT !.val = Integrate(obj.fx, window)]), window)
\* ODENonAuto_MultiStep.forward lines 434-440
NonAutoMultiStepStep(obj, bag, window, j) ==
  IF j >= Len(InputRows(obj, bag)) \/ j >= Len(TimeRows(obj, bag))
  THEN Failed(Step0, "IndexError")
  ELSE WindowShift(
         FyOfState(obj, [Step0 EXCEPT !.val =
           IntegrateNonAuto(obj.fx, window, InputRows(obj, bag)[j + 1], TimeRows(obj, bag)[j + 1])]),
         window)

\* the iteration at index j of the loop of forward, from the locals fr
VariantStep(obj, bag, fr, j) ==
  CASE obj.cls = "TimeDelayBlockSSM" -> TimeDelayBlockStep(obj, fr.Xtd, fr.Utd, fr.Dtd, j)
    [] obj.cls = "TimeDelayBlackSSM" -> TimeDelayBlackStep(obj, fr.Xtd, fr.Utd, fr.Dtd, j)
    [] obj.cls = "BlackSSM" -> BlackStep(obj, bag, fr.x, j)
    [] obj.cls = "ODEAuto" -> ODEAutoStep(obj, fr.x)
    [] obj.cls = "ODENonAuto" -> ODENonAutoStep(obj, bag, fr.x, fr.nsteps, j)
    [] obj.cls = "ODEAuto_MultiStep" -> MultiStepStep(obj, fr.x_3D)
    [] obj.cls = "ODENonAuto_MultiStep" -> NonAutoMultiStepStep(obj, bag, fr.x_3D, j)

\* the end of every variant's forward: the non-empty lists are stacked and
\* paired, in order, with the output keys after the first; the first output
\* key gets reg_error().  A variant without a channel has no list for it.
VariantOutput(obj, xs, ys, fus, fds, fes) ==
  LET tensor_lists == SelectSeq(<<xs, ys, fus, fds, fes>>, LAMBDA t : t # << >>)
      named == Zip(Tail(obj.output_keys), tensor_lists)
  IN DictFromItems(Append(named, <<obj.output_keys[1], RegError(obj)>>))

(* ------------------- the driver's inputs (variants) -------------------- *)
\* a sub-map or integrator of slot for rows of nin features; the state
\* transition has weight 2 so that consecutive states differ
Sized(slot, nin) ==
  [Lin(slot) EXCEPT !.in_features = nin, !.weight = IF slot = "fx" THEN 2 ELSE 1]
VariantDefaultArgs(cls) ==
  [cls |-> cls, fx |-> Sized("fx", 1), fy |-> Sized("fy", 1),
   fu |-> NoBlock, fd |-> NoBlock, fe |-> NoBlock, fyu |-> NoBlock,
   xou |-> "add", xod |-> "add", xoe |-> "add", xoyu |-> "add",
   residual |-> FALSE, name |-> "dynamics", input_key_map |-> << >>,
   timedelay |-> 0, extra_inputs |-> << >>, online_flag |-> FALSE]

Delays == 0..MaxT
\* time-delay block models whose sub-maps are sized for the delay depth
TimeDelayBlockSimArgs ==
  {[VariantDefaultArgs("TimeDelayBlockSSM") EXCEPT
      !.timedelay = T, !.residual = r,
      !.fx = Sized("fx", T + 1), !.fy = Sized("fy", T + 1),
      !.fu = IF u THEN Sized("fu", T + 1) ELSE NoBlock,
      !.fd = IF d THEN Sized("fd", T + 1) ELSE NoBlock,
      !.fe = IF e THEN Sized("fe", T + 1) ELSE NoBlock] :
     T \in Delays, r \in BOOLEAN, u \in BOOLEAN, d \in BOOLEAN, e \in BOOLEAN}
\* time-delay block models of every declared size, with and without an input
\* channel
TimeDelayBlockDimArgs ==
  {[VariantDefaultArgs("TimeDelayBlockSSM") EXCEPT
      !.timedelay = T,
      !.fx = [Sized("fx", xi) EXCEPT !.out_features = xo],
      !.fy = Sized("fy", xi),
      !.fu = IF ui = 0 THEN NoBlock ELSE Sized("fu", ui)] :
     T \in Delays, xi \in 1..(MaxT + 1), xo \in Widths, ui \in 0..(MaxT + 1)}
\* time-delay black-box models, with and without the input window and the
\* error channel
TimeDelayBlackArgs ==
  {[VariantDefaultArgs("TimeDelayBlackSSM") EXCEPT
      !.timedelay = T,
      !.extra_inputs = IF u THEN <<"Uf", "Up">> ELSE << >>,
      !.fx = Sized("fx", IF u THEN 2 * (T + 1) ELSE T + 1),
      !.fy = Sized("fy", T + 1),
      !.fe = IF e THEN Sized("fe", T + 1) ELSE NoBlock] :
     T \in Delays, u \in BOOLEAN, e \in BOOLEAN}
\* the rename of an extra input that the driver passes as input_key_map
RenamedInput(u, rn) == IF u /\ rn THEN << <<"Uf", "U">> >> ELSE << >>
\* black-box models, with and without an extra input (renamed or not), the
\* error channel and the input-observation channel, and with an observation
\* map of every declared input width
BlackArgs ==
  {[VariantDefaultArgs("BlackSSM") EXCEPT
      !.extra_inputs = IF u THEN <<"Uf">> ELSE << >>,
      !.input_key_map = RenamedInput(u, rn),
      !.fx = Sized("fx", IF u THEN 2 ELSE 1),
      !.fy = Sized("fy", yi),
      !.fe = IF e THEN Sized("fe", 1) ELSE NoBlock,
      !.fyu = IF yu THEN Sized("fyu", IF u THEN 2 ELSE 1) ELSE NoBlock] :
     u \in BOOLEAN, rn \in BOOLEAN, e \in BOOLEAN, yu \in BOOLEAN, yi \in Widths}
\* an integrator has out_features and no reg_error()
Integrator == [Sized("fx", 1) EXCEPT !.kind = "Integrator", !.hasreg = FALSE, !.reg = 0]
ODEArgs ==
  {[VariantDefaultArgs(c) EXCEPT !.fx = Integrator, !.input_key_map = m] :
     c \in {"ODEAuto", "ODEAuto_MultiStep"},
     m \in {<< >>, << <<"x0", "x0_estim">> >>}}
  \cup
  {[VariantDefaultArgs("ODENonAuto") EXCEPT
      !.fx = Integrator, !.online_flag = o,
      !.input_key_map = RenamedInput(u, rn),
      !.extra_inputs = IF u THEN <<"Uf">> ELSE << >>] :
     o \in BOOLEAN, u \in BOOLEAN, rn \in BOOLEAN}
  \cup
  {[VariantDefaultArgs("ODENonAuto_MultiStep") EXCEPT
      !.fx = Integrator,
      !.extra_inputs = IF u THEN <<"Uf">> ELSE << >>] : u \in BOOLEAN}

VariantArgs ==
  TimeDelayBlockSimArgs \cup TimeDelayBlockDimArgs \cup TimeDelayBlackArgs
    \cup BlackArgs \cup ODEArgs

\* a bag without the key dropped
Without(bag, dropped) == [k \in DOMAIN bag \ {dropped} |-> bag[k]]

\* bags for the time-delay variants: horizon n, an initial buffer of lx
\* states, lp past samples of the input and of the disturbance
TimeDelayBag(n, lx, lp) ==
  [k \in {"Xtd", "Yf", "Up", "Uf", "Dp", "Df"} |->
     CASE k = "Xtd" -> [j \in 1..lx |-> j]
       [] k = "Yf" -> [j \in 1..n |-> 0]
       [] k = "Up" -> [j \in 1..lp |-> 10 * j]
       [] k = "Uf" -> [j \in 1..n |-> j]
       [] k = "Dp" -> [j \in 1..lp |-> 5 * j]
       [] k = "Df" -> [j \in 1..n |-> 1]]
TimeDelayBags ==
  {TimeDelayBag(n, lx, lp) : n \in 1..MaxN, lx \in 1..(MaxT + 1), lp \in 0..MaxT}
    \cup {Without(TimeDelayBag(1, 1, 0), k) : k \in {"Xtd", "Yf", "Up"}}

\* bags for the black-box and single-step ODE variants
SingleStepBag(n) ==
  [k \in {"x0", "x0_estim", "Yf", "Uf", "Time"} |->
     CASE k = "x0" -> <<1>>
       [] k = "x0_estim" -> <<3>>
       [] k = "Yf" -> [j \in 1..n |-> 0]
       [] k = "Uf" -> [j \in 1..n |-> j]
       [] k = "Time" -> [j \in 1..n |-> j]]
\* a bag with the tensor of key k stored under k2 instead
Renamed(bag, k, k2) ==
  [q \in (DOMAIN bag \ {k}) \cup {k2} |-> IF q = k2 THEN bag[k] ELSE bag[q]]
SingleStepBags ==
  {SingleStepBag(n) : n \in 0..MaxN}
    \cup {Without(SingleStepBag(1), k) : k \in {"x0", "Yf", "Uf", "Time"}}
    \cup {Renamed(SingleStepBag(n), "Uf", "U") : n \in 1..2}

\* bags for the multi-step variants: an initial window of w states, lp past
\* and lf future reference samples
MultiStepBag(w, lp, lf) ==
  [k \in {"x0", "x0_estim", "Yp", "Yf", "Uf", "Time"} |->
     CASE k = "x0" -> [j \in 1..w |-> j]
       [] k = "x0_estim" -> [j \in 1..w |-> j + 2]
       [] k = "Yp" -> [j \in 1..lp |-> 0]
       [] k = "Yf" -> [j \in 1..lf |-> 0]
       [] k = "Uf" -> [j \in 1..lp |-> j]
       [] k = "Time" -> [j \in 1..lp |-> j]]
MultiStepBags ==
  {MultiStepBag(w, lp, lf) : w \in 1..MaxW, lp \in 0..MaxN, lf \in 0..MaxN}
    \cup {Without(MultiStepBag(w, lp, 1), "Yf") : w \in 1..MaxW, lp \in 0..MaxN}
    \cup {Without(MultiStepBag(1, 1, 1), k) : k \in {"x0", "Yp", "Time"}}

\* the bags the driver passes to an instance of class cls
VariantBags(cls) ==
  CASE cls \in {"TimeDelayBlockSSM", "TimeDelayBlackSSM"} -> TimeDelayBags
    [] cls \in {"BlackSSM", "ODEAuto", "ODENonAuto"} -> SingleStepBags
    [] cls \in {"ODEAuto_MultiStep", "ODENonAuto_MultiStep"} -> MultiStepBags

(* ------------------------- actions (variants) -------------------------- *)
\* model = <class>(...): a failed assertion leaves no instance
ConstructVariant ==
  /\ pc = "new"
  /\ \E a \in VariantArgs :
       LET r == VariantInit(a)
       IN /\ args' = [call |-> a.cls, a |-> a]
          /\ IF r.ok
             THEN pc' = "idle" /\ self' = r.obj /\ err' = None
             ELSE pc' = "config_error" /\ self' = NoObject /\ err' = "AssertionError"
  /\ UNCHANGED <<heap, data, locals, output, windows, others>>

\* model(data): the statements of forward before its loop
VariantForwardBegin ==
  /\ pc = "idle"
  /\ \E bag \in VariantBags(self.cls) :
       LET r == VariantBegin(self, bag)
       IN /\ data' = bag
          /\ pc' = IF r.err = None THEN "loop" ELSE "raised"
          /\ err' = r.err /\ nsteps' = r.nsteps /\ x' = r.x
          /\ Xtd' = r.Xtd /\ Utd' = r.Utd /\ Dtd' = r.Dtd /\ x_3D' = r.x_3D
  /\ i' = 0 /\ X' = << >> /\ Y' = << >> /\ FU' = << >> /\ FD' = << >> /\ FE' = << >>
  /\ output' = << >>
  /\ UNCHANGED <<args, self, heap, others>>

\* one iteration of the loop of forward
VariantForwardStep ==
  /\ pc = "loop" /\ i \in Range(nsteps)
  /\ LET r == VariantStep(self, data,
                          [nsteps |-> nsteps, x |-> x, Xtd |-> Xtd, Utd |-> Utd,
                           Dtd |-> Dtd, x_3D |-> x_3D], i)
     IN IF r.err = None
        THEN /\ pc' = "loop" /\ err' = None
             /\ i' = i + 1
             /\ x' = IF self.cls \in {"BlackSSM", "ODEAuto", "ODENonAuto"} THEN r.val ELSE x
             /\ Xtd' = r.Xtd /\ x_3D' = r.x_3D
             /\ X' = Append(X, r.val) /\ Y' = Append(Y, r.y)
             /\ FU' = IF ~IsNone(self.fu) THEN Append(FU, r.fu) ELSE FU
             /\ FD' = IF ~IsNone(self.fd) THEN Append(FD, r.fd) ELSE FD
             /\ FE' = IF ~IsNone(self.fe) THEN Append(FE, r.fe) ELSE FE
             /\ UNCHANGED <<nsteps, Utd, Dtd>>
        ELSE /\ pc' = "raised" /\ err' = r.err
             /\ ClearLocals
             /\ Xtd' = << >> /\ Utd' = << >> /\ Dtd' = << >> /\ x_3D' = << >>
  /\ UNCHANGED <<args, self, heap, data, output, others>>

\* the lists are stacked and the bag is returned
VariantForwardEnd ==
  /\ pc = "loop" /\ i \notin Range(nsteps)
  /\ output' = VariantOutput(self, X, Y, FU, FD, FE)
  /\ pc' = "done"
  /\ UNCHANGED <<args, self, heap, data, locals, err, windows, others>>

\* the caller has taken the returned bag, or caught the exception
VariantReturn ==
  /\ pc \in {"done", "raised"}
  /\ pc' = "idle" /\ err' = None
  /\ data' = << >> /\ output' = << >>
  /\ ClearLocals
  /\ Xtd' = << >> /\ Utd' = << >> /\ Dtd' = << >> /\ x_3D' = << >>
  /\ UNCHANGED <<args, self, heap, others>>

VariantNext ==
  \/ ConstructVariant \/ VariantForwardBegin \/ VariantForwardStep
  \/ VariantForwardEnd \/ VariantReturn

VariantSpec == Init /\ [][VariantNext]_vars

(* ===================== both families of classes ======================= *)
\* an instance of any of the classes is constructed, and then called
AllNext ==
  \/ Construct
  \/ ConstructVariant
  \/ self.cls = "BlockSSM" /\ UpdateKeys
  \/ self.cls = "BlockSSM" /\ ForwardBegin
  \/ self.cls = "BlockSSM" /\ ForwardStep
  \/ self.cls = "BlockSSM" /\ ForwardEnd
  \/ self.cls = "BlockSSM" /\ Return
  \/ self.cls \notin {None, "BlockSSM"} /\ VariantForwardBegin
  \/ self.cls \notin {None, "BlockSSM"} /\ VariantForwardStep
  \/ self.cls \notin {None, "BlockSSM"} /\ VariantForwardEnd
  \/ self.cls \notin {None, "BlockSSM"} /\ VariantReturn

AllSpec == Init /\ [][AllNext]_vars

(* ================= class attributes and instance keys ================== *)
\* most instances the driver constructs one after the other
MaxBuilt == 2

\* Attribute lookup and binding during __init__.  st is [classes, bound, own]:
\* the class objects, the names of the attributes bound on the instance so
\* far, and their values.
KeyAttrs == {"DEFAULT_INPUT_KEYS", "DEFAULT_OUTPUT_KEYS"}
NewInstance(cl) == [classes |-> cl, bound |-> {}, own |-> [k \in KeyAttrs |-> << >>]]
\* the class on whose object the attribute is found: cls or its base
Owner(cl, cls, attr) == IF HasKey(cl[cls], attr) THEN cls ELSE Parent(cls)
\* self.attr: the instance's own attribute, else the class's
Attr(st, cls, attr) ==
  IF attr \in st.bound THEN st.own[attr]
  ELSE Get(st.classes[Owner(st.classes, cls, attr)], attr)
\* (variant: the assignment also rebinds the attribute on the class object)
BindOnClass(st, cls, attr, v) ==
  [st EXCEPT !.bound = @ \cup {attr}, !.own[attr] = v,
             !.classes[Owner(st.classes, cls, attr)] = DictFromItems(Append(@, <<attr, v>>))]
\* self.attr = v binds the attribute on the instance
Bind(st, cls, attr, v) ==
  [st EXCEPT !.bound = @ \cup {attr}, !.own[attr] = v]
\* if cond: self.attr = self.attr + added  (list + list is a new list)
Extend(cond, st, cls, attr, added) ==
  IF cond THEN Bind(st, cls, attr, Attr(st, cls, attr) \o added) ELSE st

\* TimeDelayBlockSSM.__init__ lines 481-484
TimeDelayBlockKeyStatements(st, cls, a) ==
  Extend(~IsNone(a.fd),
    Extend(~IsNone(a.fu), st, cls, "DEFAULT_INPUT_KEYS", <<"Up">>),
    cls, "DEFAULT_INPUT_KEYS", <<"Dp">>)
\* BlockSSM.__init__ lines 107-114
BlockInputKeyStatements(st, cls, a) ==
  Extend(~IsNone(a.fd),
    Extend(~IsNone(a.fu), st, cls, "DEFAULT_INPUT_KEYS", <<"Uf">>),
    cls, "DEFAULT_INPUT_KEYS", <<"Df">>)
BlockKeyStatements(st, cls, a) ==
  Extend(~IsNone(a.fe),
    Extend(~IsNone(a.fd),
      Extend(~IsNone(a.fu), BlockInputKeyStatements(st, cls, a),
             cls, "DEFAULT_OUTPUT_KEYS", <<"fU">>),
      cls, "DEFAULT_OUTPUT_KEYS", <<"fD">>),
    cls, "DEFAULT_OUTPUT_KEYS", <<"fE">>)
\* BlackSSM.__init__ lines 209-212
BlackKeyStatements(st, cls, a) ==
  Extend(~IsNone(a.fe),
    Extend(TRUE, st, cls, "DEFAULT_INPUT_KEYS", a.extra_inputs),
    cls, "DEFAULT_OUTPUT_KEYS", <<"fE">>)
\* the key statements of the constructor chain of class cls
KeyStatements(cl, cls, a) ==
  CASE cls = "BlockSSM" -> BlockKeyStatements(NewInstance(cl), cls, a)
    [] cls = "TimeDelayBlockSSM" ->
         BlockKeyStatements(
           TimeDelayBlockKeyStatements(NewInstance(cl), cls, a), cls, a)
    [] cls \in {"BlackSSM", "TimeDelayBlackSSM"} ->
         BlackKeyStatements(NewInstance(cl), cls, a)

\* the rest of the constructor of class cls
RestOfInit(cls, a) == IF cls = "BlockSSM" THEN BlockSSMInit(a) ELSE VariantInit(a)
\* SSM.__init__ on the key lists the instance sees after the key statements
Keyed(st, cls, a) ==
  SSMInit(NewVariant(cls, Attr(st, cls, "DEFAULT_INPUT_KEYS"),
                     Attr(st, cls, "DEFAULT_OUTPUT_KEYS")),
          a.input_key_map, a.name)
\* the instance with the keys of keyed
WithKeys(obj, keyed) ==
  [obj EXCEPT !.DEFAULT_INPUT_KEYS = keyed.DEFAULT_INPUT_KEYS,
              !.DEFAULT_OUTPUT_KEYS = keyed.DEFAULT_OUTPUT_KEYS,
              !.input_key_map = keyed.input_key_map,
              !.input_keys = keyed.input_keys,
              !.output_keys = keyed.output_keys]
InitResult(st, r, rest) ==
  [ok |-> r.ok /\ rest.ok, classes |-> st.classes, obj |-> WithKeys(rest.obj, r.obj)]
\* cls(...) with the class objects cl: [ok, obj, classes]
ClassInit(cl, cls, a) ==
  InitResult(KeyStatements(cl, cls, a), Keyed(KeyStatements(cl, cls, a), cls, a),
               RestOfInit(cls, a))

\* the configurations the driver constructs one after the other: every
\* subset of channels or extra inputs, in each of the four classes
ClassArgs(cls) ==
  CASE cls = "BlockSSM" -> {a \in ChannelArgs : IsNone(a.fyu)}
    [] cls = "TimeDelayBlockSSM" ->
         {a \in TimeDelayBlockSimArgs : a.timedelay = 1 /\ ~a.residual}
    [] cls = "BlackSSM" ->
         {a \in BlackArgs : IsNone(a.fyu) /\ a.fy.in_features = 1 /\ a.input_key_map = << >>}
    [] cls = "TimeDelayBlackSSM" -> {a \in TimeDelayBlackArgs : a.timedelay = 1}

\* one more instance is constructed
ConstructAnother ==
  /\ Len(instances) < MaxBuilt
  /\ \E cls \in DOMAIN ClassDefs : \E a \in ClassArgs(cls) :
       LET r == ClassInit(class_attrs, cls, a)
       IN /\ args' = [call |-> cls, a |-> a]
          /\ class_attrs' = r.classes
          /\ IF r.ok
             THEN /\ pc' = "idle" /\ self' = r.obj /\ err' = None
                  /\ instances' = Append(instances, r.obj)
             ELSE /\ pc' = "config_error" /\ self' = NoObject /\ err' = "AssertionError"
                  /\ UNCHANGED instances
  /\ UNCHANGED <<heap, data, locals, output, windows, calls>>

ClassNext == ConstructAnother

ClassSpec == Init /\ [][ClassNext]_vars

(* ================== two forward calls on one instance ================== *)
\* longest reference horizon of the bags of two concurrent callers
MaxSteps == 2

\* the instances the two callers share: block models with or without the
\* input channel and the error term, and time-delay black-box models
SharedArgs(cls) ==
  CASE cls = "BlockSSM" -> {a \in SimArgs : IsNone(a.fyu) /\ IsNone(a.fd)}
    [] cls = "TimeDelayBlackSSM" -> TimeDelayBlackArgs
\* the bags of the callers: each caller builds its own
CallerBags(obj) ==
  IF obj.cls = "BlockSSM"
  THEN {Bag(n, v, None) : n \in 1..MaxSteps, v \in 0..MaxX0}
  ELSE {TimeDelayBag(n, obj.timedelay + 1, obj.timedelay) : n \in 1..MaxSteps}
\* the references of a bag whose tensors are placed in the heap after base
\* tensors that are already there
RefsAfter(bag, base) == [k \in DOMAIN bag |-> RefsOf(bag)[k] + base]

\* (variant: the running state is kept where the other caller's iterations
\* overwrite it)
StateOnInstance(cs, c) ==
  IF \E o \in Calls \ {c} : cs[o].pc = "loop" /\ cs[o].i > 0
  THEN cs[CHOOSE o \in Calls \ {c} : cs[o].pc = "loop" /\ cs[o].i > 0].x
  ELSE cs[c].x
\* the running state x is a local of the call
StateOf(cs, c) == cs[c].x

\* model = cls(...), shared by both callers
ConstructShared ==
  /\ pc = "new"
  /\ \E cls \in {"BlockSSM", "TimeDelayBlackSSM"} : \E a \in SharedArgs(cls) :
       LET r == RestOfInit(cls, a)
       IN /\ r.ok
          /\ args' = [call |-> cls, a |-> a]
          /\ pc' = "idle" /\ self' = r.obj /\ err' = None
  /\ UNCHANGED <<heap, data, locals, output, windows, others>>

\* caller c enters forward with its own bag: the statements before the loop
CallBegin(c) ==
  /\ pc = "idle" /\ calls[c].pc = "idle"
  /\ \E bag \in CallerBags(self) :
       IF self.cls = "BlockSSM"
       THEN LET refs == RefsAfter(bag, Len(heap))
                h == heap \o HeapOf(bag)
                r == BlockBegin(self, refs, h)
            IN /\ heap' = h
               /\ calls' = [calls EXCEPT ![c] =
                    [IdleCall EXCEPT !.pc = IF r.err = None THEN "loop" ELSE "raised",
                                     !.bag = bag, !.data = refs, !.err = r.err,
                                     !.nsteps = r.nsteps, !.x = r.x]]
       ELSE LET r == VariantBegin(self, bag)
            IN /\ heap' = heap
               /\ calls' = [calls EXCEPT ![c] =
                    [IdleCall EXCEPT !.pc = IF r.err = None THEN "loop" ELSE "raised",
                                     !.bag = bag, !.data = bag, !.err = r.err,
                                     !.nsteps = r.nsteps, !.x = r.x,
                                     !.Xtd = r.Xtd, !.Utd = r.Utd, !.Dtd = r.Dtd,
                                     !.x_3D = r.x_3D]]
  /\ UNCHANGED <<pc, args, self, data, locals, output, err, windows, class_attrs, instances>>

\* the lists of the call after an iteration that returned the record r
Appended(fr, xv, yv, r) ==
  [fr EXCEPT !.i = fr.i + 1,
             !.X = Append(fr.X, xv), !.Y = Append(fr.Y, yv),
             !.FU = IF ~IsNone(self.fu) THEN Append(fr.FU, r.fu) ELSE fr.FU,
             !.FD = IF ~IsNone(self.fd) THEN Append(fr.FD, r.fd) ELSE fr.FD,
             !.FE = IF ~IsNone(self.fe) THEN Append(fr.FE, r.fe) ELSE fr.FE]
\* one iteration of the loop of caller c
CallStep(c) ==
  /\ calls[c].pc = "loop" /\ calls[c].i \in Range(calls[c].nsteps)
  /\ IF self.cls = "BlockSSM"
     THEN LET r == BlockStep(self, calls[c].data, heap, StateOf(calls, c), calls[c].i)
          IN /\ heap' = r.heap
             /\ calls' = [calls EXCEPT ![c] =
                  IF r.err = None
                  THEN [Appended(calls[c], r.ref, r.yref, r) EXCEPT !.x = r.ref]
                  ELSE [calls[c] EXCEPT !.pc = "raised", !.err = r.err]]
     ELSE LET r == VariantStep(self, calls[c].data,
                               [nsteps |-> calls[c].nsteps, x |-> StateOf(calls, c),
                                Xtd |-> calls[c].Xtd, Utd |-> calls[c].Utd,
                                Dtd |-> calls[c].Dtd, x_3D |-> calls[c].x_3D], calls[c].i)
          IN /\ heap' = heap
             /\ calls' = [calls EXCEPT ![c] =
                  IF r.err = None
                  THEN [Appended(calls[c], r.val, r.y, r) EXCEPT !.Xtd = r.Xtd, !.x_3D = r.x_3D]
                  ELSE [calls[c] EXCEPT !.pc = "raised", !.err = r.err]]
  /\ UNCHANGED <<pc, args, self, data, locals, output, err, windows, class_attrs, instances>>

\* the lists of caller c are stacked and its bag is returned
CallEnd(c) ==
  /\ calls[c].pc = "loop" /\ calls[c].i \notin Range(calls[c].nsteps)
  /\ calls' = [calls EXCEPT ![c] =
       [calls[c] EXCEPT !.pc = "done",
          !.output = IF self.cls = "BlockSSM"
                     THEN BlockOutput(self, heap, calls[c].X, calls[c].Y,
                                      calls[c].FU, calls[c].FD, calls[c].FE)
                     ELSE VariantOutput(self, calls[c].X, calls[c].Y,
                                        calls[c].FU, calls[c].FD, calls[c].FE)]]
  /\ UNCHANGED <<pc, args, self, heap, data, locals, output, err, windows, class_attrs, instances>>

\* both callers have their results and drop their tensors
CallsReturn ==
  /\ \A c \in Calls : calls[c].pc \in {"done", "raised"}
  /\ calls' = [c \in Calls |-> IdleCall] /\ heap' = << >>
  /\ UNCHANGED <<pc, args, self, data, locals, output, err, windows, class_attrs, instances>>

ConcurrentNext ==
  \/ ConstructShared
  \/ \E c \in Calls : CallBegin(c) \/ CallStep(c) \/ CallEnd(c)
  \/ CallsReturn

ConcurrentSpec == Init /\ [][ConcurrentNext]_vars

(* ============================ the factories ============================ *)
\* _bssm_kinds, lines 725-731
bssm_kinds == {"linear", "hammerstein", "wiener", "hw", "blocknlin"}
\* the kinds the driver asks for: the listed ones, a common misspelling, and
\* a kind of another model family
AskedKinds == bssm_kinds \cup {"weiner", "arx"}

\* datadims: the shape of each array of the dataset, keyed by its name; a
\* dataset always has x0 and Yf, and Uf / Df when it has inputs / disturbances
Shape(w) == <<MaxN, w>>
Datadims(nx, ny, nu, nd) ==
  [k \in {"x0", "Yf"} \cup (IF nu > 0 THEN {"Uf"} ELSE {}) \cup (IF nd > 0 THEN {"Df"} ELSE {})
     |-> Shape(CASE k = "x0" -> nx [] k = "Yf" -> ny [] k = "Uf" -> nu [] k = "Df" -> nd)]
DatadimsSet ==
  {Datadims(nx, 1, nu, nd) : nx \in Widths, nu \in 0..1, nd \in 0..1}
\* shape[-1]
LastDim(shape) == shape[Len(shape)]

\* _extract_dims(datadims, timedelay)
extract_dims(datadims, timedelay) ==
  LET nx == LastDim(datadims["x0"])
      ny == LastDim(datadims["Yf"])
      nu == IF "Uf" \in DOMAIN datadims THEN LastDim(datadims["Uf"]) ELSE 0
      nd == IF "Df" \in DOMAIN datadims THEN LastDim(datadims["Df"]) ELSE 0
  IN [nx |-> nx, ny |-> ny, nu |-> nu, nd |-> nd,
      nx_td |-> (timedelay + 1) * nx,
      nu_td |-> (timedelay + 1) * nu,
      nd_td |-> (timedelay + 1) * nd]

\* the maps the caller's constructors linmap and nonlinmap build
lin(ni, no) == [Block(ni, no, "linear", 1, TRUE, 1) EXCEPT !.kind = "linmap"]
nlin(ni, no) == [Block(ni, no, "linear", 1, TRUE, 1) EXCEPT !.kind = "nonlinmap"]

\* block_model lines 646-670: fx, fy, fu, fd of the branch the kind selects
BlockMaps(kind, d) ==
  LET opt(m, n) == IF n # 0 THEN m ELSE NoBlock
  IN CASE kind = "blocknlin" ->
            [fx |-> nlin(d.nx_td, d.nx), fy |-> lin(d.nx_td, d.ny),
             fu |-> opt(nlin(d.nu_td, d.nx), d.nu), fd |-> opt(nlin(d.nd_td, d.nx), d.nd)]
       [] kind = "linear" ->
            [fx |-> lin(d.nx_td, d.nx), fy |-> lin(d.nx_td, d.ny),
             fu |-> opt(lin(d.nu_td, d.nx), d.nu), fd |-> opt(lin(d.nd_td, d.nx), d.nd)]
       [] kind = "hammerstein" ->
            [fx |-> lin(d.nx_td, d.nx), fy |-> lin(d.nx_td, d.ny),
             fu |-> opt(nlin(d.nu_td, d.nx), d.nu), fd |-> opt(nlin(d.nd_td, d.nx), d.nd)]
       [] kind = "weiner" ->
            [fx |-> lin(d.nx_td, d.nx), fy |-> nlin(d.nx_td, d.ny),
             fu |-> opt(lin(d.nu_td, d.nx), d.nu), fd |-> opt(lin(d.nd_td, d.nx), d.nd)]
       [] OTHER ->
            [fx |-> lin(d.nx_td, d.nx), fy |-> nlin(d.nx_td, d.ny),
             fu |-> opt(nlin(d.nu_td, d.nx), d.nu), fd |-> opt(nlin(d.nd_td, d.nx), d.nd)]

\* block_model(kind, datadims, ..., fe, fyu, residual, timedelay): [ok, obj];
\* fe and fyu tell whether the caller passed a constructor for the term
block_model(kind, datadims, fe, fyu, residual, timedelay) ==
  IF kind \notin bssm_kinds THEN [ok |-> FALSE, obj |-> NoObject]
  ELSE
    LET d == extract_dims(datadims, timedelay)
        m == BlockMaps(kind, d)
        a == [VariantDefaultArgs("TimeDelayBlockSSM") EXCEPT
                !.fx = m.fx, !.fy = m.fy, !.fu = m.fu, !.fd = m.fd,
                !.fe = IF ~fe THEN NoBlock
                       ELSE IF kind \in {"blocknlin", "hammerstein", "hw"}
                            THEN nlin(d.nx_td, d.nx) ELSE lin(d.nx_td, d.nx),
                !.fyu = IF ~fyu THEN NoBlock
                        ELSE IF kind \in {"blocknlin", "hw"}
                             THEN nlin(d.nu_td, d.ny) ELSE lin(d.nu_td, d.ny),
                !.residual = residual, !.name = "blockmodel", !.timedelay = timedelay]
    IN IF timedelay = 0 THEN BlockSSMInit(a) ELSE TimeDelayBlockSSMInit(a)

\* blackbox_model(datadims, ..., fe, fyu, timedelay, extra_inputs): [ok, obj];
\* line 701 calls _extract_dims(datadims), whose timedelay defaults to 0
blackbox_model(datadims, fe, fyu, timedelay, extra_inputs) ==
  LET d == extract_dims(datadims, 0)
      a == [VariantDefaultArgs("BlackSSM") EXCEPT
              !.fx = nlin(d.nx_td + d.nu_td + d.nd_td, d.nx),
              !.fe = IF fe THEN nlin(d.nx_td, d.nx) ELSE NoBlock,
              !.fyu = IF fyu THEN nlin(d.nu_td, d.ny) ELSE NoBlock,
              !.fy = lin(d.nx_td, d.ny),
              !.name = "blackbox_model", !.timedelay = timedelay,
              !.extra_inputs = extra_inputs]
  IN IF timedelay = 0 THEN BlackSSMInit("BlackSSM", <<"x0", "Yf">>, a)
     ELSE TimeDelayBlackSSMInit(a)

\* model = block_model(kind, datadims, ...)
CallBlockModel ==
  /\ pc = "new"
  /\ \E kind \in AskedKinds, datadims \in DatadimsSet, T \in Delays,
        fe \in BOOLEAN, fyu \in BOOLEAN, residual \in BOOLEAN :
       LET r == block_model(kind, datadims, fe, fyu, residual, T)
       IN /\ args' = [call |-> "block_model", kind |-> kind, datadims |-> datadims,
                      timedelay |-> T, fe |-> fe, fyu |-> fyu]
          /\ self' = r.obj
          /\ pc' = IF r.ok THEN "idle" ELSE "config_error"
          /\ err' = IF r.ok THEN None ELSE "AssertionError"
  /\ UNCHANGED <<heap, data, locals, output, windows, others>>

\* model = blackbox_model(datadims, ...)
CallBlackboxModel ==
  /\ pc = "new"
  /\ \E datadims \in DatadimsSet, T \in Delays, fe \in BOOLEAN, fyu \in BOOLEAN,
        extra \in {<< >>, <<"Uf">>, <<"Uf", "Df">>} :
       LET r == blackbox_model(datadims, fe, fyu, T, extra)
       IN /\ args' = [call |-> "blackbox_model", kind |-> None, datadims |-> datadims,
                      timedelay |-> T, fe |-> fe, fyu |-> fyu]
          /\ self' = r.obj
          /\ pc' = IF r.ok THEN "idle" ELSE "config_error"
          /\ err' = IF r.ok THEN None ELSE "AssertionError"
  /\ UNCHANGED <<heap, data, locals, output, windows, others>>

FactoryNext ==
  \/ CallBlockModel
  \/ CallBlackboxModel

FactorySpec == Init /\ [][FactoryNext]_vars

(* ------------------------------ properties ----------------------------- *)
Constructed == pc \notin {"new", "config_error"}
InForward == pc \in {"loop", "done", "raised"}
\* the mapping supplied to the last constructor or update_input_keys call
Supplied == IF args.call = "BlockSSM" THEN args.a.input_key_map ELSE args.m
\* the caller's tensor under bag key k, and the reference horizon N
BagHas(k) == k \in DOMAIN data
Tensor(k) == heap[data[k]]
Suffixed(k) == IF self.name = None THEN k ELSE k \o "_" \o self.name
Out(k) == Get(output, Suffixed(k))
Enabled(slot) ==
  CASE slot = "fU" -> ~IsNone(self.fu) [] slot = "fD" -> ~IsNone(self.fd)
    [] slot = "fE" -> ~IsNone(self.fe)
Horizon == Len(Tensor(Get(self.input_key_map, "Yf")))

\* C1: when BlockSSM.forward returns for a horizon N >= 1, X_pred and Y_pred
\* hold exactly N per-step entries and so does the stacked output of every
\* enabled channel (fU, fD, fE); inside the loop every list of an enabled
\* channel holds one entry per completed iteration.
C1_TrajectoryLengths ==
  /\ pc = "loop" =>
       /\ Len(X) = i /\ Len(Y) = i
       /\ Len(FU) = (IF Enabled("fU") THEN i ELSE 0)
       /\ Len(FD) = (IF Enabled("fD") THEN i ELSE 0)
       /\ Len(FE) = (IF Enabled("fE") THEN i ELSE 0)
  /\ (pc = "done" /\ Horizon >= 1) =>
       /\ HasKey(output, Suffixed("X_pred")) /\ Len(Out("X_pred")) = Horizon
       /\ HasKey(output, Suffixed("Y_pred")) /\ Len(Out("Y_pred")) = Horizon
       /\ \A c \in {"fU", "fD", "fE"} :
            Enabled(c) => HasKey(output, Suffixed(c)) /\ Len(Out(c)) = Horizon
C1_Witness ==
  /\ pc = "done" /\ Horizon = MaxN
  /\ Enabled("fU") /\ Enabled("fD") /\ Enabled("fE")
  /\ Len(Out("X_pred")) = MaxN /\ Len(Out("fE")) = MaxN

\* C2: every accepted rename mapping leaves as many distinct actual input
\* keys as there are default input keys, so a mapping with an extra entry
\* and a mapping that sends two defaults to one actual key are both rejected.
C2_RejectsSizeMismatch ==
  Constructed =>
    Cardinality(SeqRange(DictValues(self.input_key_map))) = Len(self.DEFAULT_INPUT_KEYS)

\* C3: after a successful construction or update_input_keys call the domain
\* of input_key_map is exactly the default input keys, each occurring once;
\* a default the supplied mapping does not name maps to itself and a named
\* default maps to the supplied actual key.
C3_KeyMapShape ==
  Constructed =>
    /\ SeqRange(DictKeys(self.input_key_map)) = SeqRange(self.DEFAULT_INPUT_KEYS)
    /\ \A k \in SeqRange(self.DEFAULT_INPUT_KEYS) :
         /\ Cardinality({j \in 1..Len(self.input_key_map) : self.input_key_map[j][1] = k}) = 1
         /\ Get(self.input_key_map, k) = (IF HasKey(Supplied, k) THEN Get(Supplied, k) ELSE k)
    /\ self.input_keys = DictValues(self.input_key_map)
C3_Witness ==
  /\ pc = "idle" /\ args.call = "update_input_keys"
  /\ Supplied = << <<"x0", "x0_estim">> >>
  /\ ~IsNone(self.fu)
  /\ Get(self.input_key_map, "x0") = "x0_estim" /\ Get(self.input_key_map, "Uf") = "Uf"

\* an explicit identity mapping: every item maps a key to itself
IsIdentityMap(m) == m # << >> /\ \A j \in 1..Len(m) : m[j][1] = m[j][2]
\* the instance construction yields from the last constructor arguments with
\* no rename mapping
DefaultPath == BlockSSMInit([args.a EXCEPT !.input_key_map = << >>]).obj
ByIdentityMap == pc = "idle" /\ args.call = "BlockSSM" /\ IsIdentityMap(Supplied)

\* C4 as stated: construction with an explicit identity mapping (all default
\* keys or some of them, in any order) yields the same input_key_map, the
\* same input_keys list in the same order and the same output_keys as
\* construction with no mapping.
C4_IdentityRoundTrip ==
  ByIdentityMap =>
    /\ SeqRange(self.input_key_map) = SeqRange(DefaultPath.input_key_map)
    /\ self.input_keys = DefaultPath.input_keys
    /\ self.output_keys = DefaultPath.output_keys
\* C4 as amended: the input_key_map (as a dict) and the output_keys are those
\* of the default path, and input_keys holds the same keys, each once, but
\* in the order: defaults the mapping does not name (in default order), then
\* the named keys in the mapping's order.
C4_IdentityRoundTripUpToOrder ==
  ByIdentityMap =>
    /\ SeqRange(self.input_key_map) = SeqRange(DefaultPath.input_key_map)
    /\ Len(self.input_key_map) = Len(DefaultPath.input_key_map)
    /\ self.output_keys = DefaultPath.output_keys
    /\ SeqRange(self.input_keys) = SeqRange(DefaultPath.input_keys)
    /\ Len(self.input_keys) = Len(DefaultPath.input_keys)
    /\ self.input_keys =
         SelectSeq(self.DEFAULT_INPUT_KEYS, LAMBDA k : ~HasKey(Supplied, k)) \o DictKeys(Supplied)
C4_Witness ==
  /\ ByIdentityMap /\ Supplied = << <<"x0", "x0">> >>
  /\ self.input_keys = <<"Yf", "x0">>
  /\ DefaultPath.input_keys = <<"x0", "Yf">>

\* the output keys the instance's configuration calls for
ExpectedOutputKeys ==
  <<Suffixed("reg_error"), Suffixed("X_pred"), Suffixed("Y_pred")>>
    \o (IF Enabled("fU") THEN <<Suffixed("fU")>> ELSE << >>)
    \o (IF Enabled("fD") THEN <<Suffixed("fD")>> ELSE << >>)
    \o (IF Enabled("fE") THEN <<Suffixed("fE")>> ELSE << >>)

C6_CoreDimensionsChecked ==
  (/\ args.call = "BlockSSM"
   /\ \/ args.a.fx.out_features # args.a.fy.in_features
      \/ args.a.fx.in_features # args.a.fx.out_features)
  => pc = "config_error" /\ self = NoObject /\ err = "AssertionError"
C6_Witness ==
  /\ pc = "config_error" /\ args.call = "BlockSSM"
  /\ args.a.fx.in_features = args.a.fx.out_features
  /\ args.a.fx.out_features # args.a.fy.in_features
  /\ args.a.input_key_map = << >>

\* C7: a BlockSSM constructor call with a configured fu, fd or fe whose
\* out_features differs from fx.out_features fails at construction.
C7_ChannelDimensionsChecked ==
  (/\ args.call = "BlockSSM"
   /\ \E b \in {args.a.fu, args.a.fd, args.a.fe} :
        ~IsNone(b) /\ b.out_features # args.a.fx.out_features)
  => pc = "config_error"

\* the bag of the current forward call lacks the key mapped to x0 or to Yf
LacksRequired ==
  \/ ~BagHas(Get(self.input_key_map, "x0"))
  \/ ~BagHas(Get(self.input_key_map, "Yf"))

\* C8: BlockSSM.forward on a bag without the mapped initial-state key or the
\* mapped reference key raises a missing-key error before any step is
\* simulated: no iteration runs, no state is substituted, nothing is returned.
C8_MissingInputRaises ==
  (InForward /\ LacksRequired) =>
    /\ pc = "raised" /\ err = "KeyError"
    /\ i = 0 /\ x = 0 /\ X = << >> /\ Y = << >>
    /\ output = << >>
C8_Witness ==
  /\ pc = "raised" /\ err = "KeyError"
  /\ Get(self.input_key_map, "x0") = "x0" /\ Get(self.input_key_map, "Yf") = "Yf"
  /\ ~BagHas("x0") /\ BagHas("x0_estim") /\ BagHas("Yf")

\* the configuration of the residual-mode property: identity state
\* transition, identity input channel, no disturbance or error channel,
\* additive operators, residual mode on, x0 and Yf read from distinct keys,
\* at least one step simulated
ResidualScenario ==
  /\ pc = "done" /\ Horizon >= 1
  /\ self.residual /\ self.fx.weight = 1
  /\ ~IsNone(self.fu) /\ self.fu.weight = 1 /\ self.xou = "add"
  /\ IsNone(self.fd) /\ IsNone(self.fe)
  /\ Get(self.input_key_map, "x0") # Get(self.input_key_map, "Yf")
InitialState == Tensor(Get(self.input_key_map, "x0"))[1]
\* the input-channel contribution at step t (1-based), and their sum up to t
Contribution(t) == Out("fU")[t][1]
RECURSIVE CumulativeInput(_)
CumulativeInput(t) == IF t = 0 THEN 0 ELSE CumulativeInput(t - 1) + Contribution(t)

\* C9 as stated: in the residual scenario the state at step t is the initial
\* state plus the cumulative sum of the input-channel contributions up to t
\* (x0 = [0], u = [[1],[2],[3]] gives X_pred = [[1],[3],[6]]).
C9_ResidualCumulativeSum ==
  ResidualScenario =>
    \A t \in 1..Len(Out("X_pred")) :
      Out("X_pred")[t] = <<InitialState + CumulativeInput(t)>>
\* C9 as amended: in the residual scenario the state at step t is twice the
\* state at step t-1 (the initial state for the first step) plus the
\* input-channel contribution at t, because the identity state transition
\* and the residual term each add the previous state
\* (x0 = [0], u = [[1],[2],[3]] gives X_pred = [[1],[4],[11]]).
C9_ResidualDoubling ==
  ResidualScenario =>
    \A t \in 1..Len(Out("X_pred")) :
      Out("X_pred")[t] =
        <<2 * (IF t = 1 THEN InitialState ELSE Out("X_pred")[t - 1][1]) + Contribution(t)>>
C9_Witness ==
  /\ ResidualScenario /\ InitialState = 0
  /\ Tensor(Get(self.input_key_map, "Uf")) = <<1, 2, 3>>
  /\ Out("X_pred") = << <<1>>, <<4>>, <<11>> >>

\* the regularization value of one sub-map: zero when it is absent or has
\* no accessor
Contributes(b) == IF ~IsNone(b) /\ b.hasreg THEN b.reg ELSE 0

\* C10: the regularization value every forward call returns is the sum of
\* reg_error() over the owned sub-maps that expose the accessor, whatever
\* the horizon and whatever calls came before; a sub-map without the
\* accessor contributes zero and raises nothing.
C10_RegularizationSum ==
  /\ pc = "done" =>
       /\ HasKey(output, Suffixed("reg_error"))
       /\ Out("reg_error") =
            Contributes(self.fx) + Contributes(self.fy) + Contributes(self.fu)
              + Contributes(self.fd) + Contributes(self.fe) + Contributes(self.fyu)
  /\ pc = "raised" => err \in {"KeyError", "IndexError"}
C10_Witness ==
  /\ pc = "done"
  /\ ~self.fx.hasreg /\ self.fy.hasreg /\ ~IsNone(self.fu) /\ self.fu.hasreg
  /\ IsNone(self.fd) /\ IsNone(self.fe) /\ IsNone(self.fyu)
  /\ Out("reg_error") = self.fy.reg + self.fu.reg
  /\ self.fy.reg > 0 /\ self.fu.reg > 0

\* the instance the constructor yields from the configuration of the current
\* instance and the rename mapping m
Rebuilt(m) ==
  BlockSSMInit([fx |-> self.fx, fy |-> self.fy, fu |-> self.fu, fd |-> self.fd,
                fe |-> self.fe, fyu |-> self.fyu,
                xou |-> self.xou, xod |-> self.xod, xoe |-> self.xoe, xoyu |-> self.xoyu,
                residual |-> self.residual, name |-> self.name, input_key_map |-> m])
AfterUpdate == pc = "idle" /\ args.call = "update_input_keys"

\* C15: update_input_keys(m2) replaces the previous mapping: whatever mapping
\* the instance was constructed with and whatever updates came before, after
\* an accepted update_input_keys(m2) the input_key_map and input_keys are those
\* of an instance constructed directly with m2, and a second
\* update_input_keys(m2) changes nothing on the instance.
C15_UpdateReplaces ==
  /\ [](AfterUpdate =>
          /\ Rebuilt(args.m).ok
          /\ self.input_key_map = Rebuilt(args.m).obj.input_key_map
          /\ self.input_keys = Rebuilt(args.m).obj.input_keys)
  /\ [][(AfterUpdate /\ AfterUpdate' /\ args' = args) => self' = self]_vars
C15_Witness ==
  /\ AfterUpdate /\ args.m = << >>
  /\ Get(self.input_key_map, "x0") = "x0" /\ self.name = "estim"
  /\ ~IsNone(self.fu) /\ self.input_keys = <<"x0", "Yf", "Uf">>

\* the values one iteration computes from the state xp before the step and
\* the samples u and d of the step, in the order of the spec's algorithm
OrderedX(xp, u, d) ==
  LET x1 == IF self.fx.fn = "pass" THEN xp ELSE Apply(self.fx, xp)
      x2 == IF IsNone(self.fu) THEN x1 ELSE TorchOp(self.xou, x1, Apply(self.fu, u))
      x3 == IF IsNone(self.fd) THEN x2 ELSE TorchOp(self.xod, x2, Apply(self.fd, d))
      x4 == IF IsNone(self.fe) THEN x3 ELSE TorchOp(self.xoe, x3, Apply(self.fe, xp))
  IN IF self.residual THEN TorchOp("add", x4, xp) ELSE x4
OrderedY(xn, u) ==
  LET y1 == Apply(self.fy, xn)
  IN IF IsNone(self.fyu) THEN y1 ELSE TorchOp(self.xoyu, y1, Apply(self.fyu, u))
\* the sample of the current iteration under default key k (<<0>> when the
\* channel that reads it is absent)
Sample(k) ==
  IF HasKey(self.input_key_map, k) THEN <<Tensor(Get(self.input_key_map, k))[i + 1]>> ELSE <<0>>
StepTaken == pc = "loop" /\ pc' = "loop" /\ i' = i + 1

\* C16: every completed iteration of BlockSSM.forward leaves in x the value
\* obtained by applying, in this order, fx, then xou with fu(Uf[i]), then xod
\* with fd(Df[i]), then xoe with fe of the state from before the step, then
\* the plain addition of the state from before the step when residual; and
\* the y it appends is fy of that final x, combined by xoyu with fyu(Uf[i]).
C16_StepOrder ==
  [][StepTaken =>
       /\ heap'[x'] = OrderedX(heap[x], Sample("Uf"), Sample("Df"))
       /\ heap'[Y'[Len(Y')]] = OrderedY(heap'[x'], Sample("Uf"))]_vars
C16_Witness ==
  /\ pc = "done" /\ Horizon = 2 /\ self.residual
  /\ self.xou = "sub" /\ self.xod = "mul" /\ self.xoe = "sub" /\ self.xoyu = "mul"
  /\ self.fx.weight = 2 /\ self.fe.weight = 3
  /\ Tensor(Get(self.input_key_map, "x0")) = <<1>>
  /\ Out("X_pred") = << <<-1>>, <<-2>> >>
  /\ Out("Y_pred") = << <<-2>>, <<-8>> >>

(* ------------------------ properties (variants) ------------------------ *)
TimeDelayClasses == {"TimeDelayBlockSSM", "TimeDelayBlackSSM"}
MultiStepClasses == {"ODEAuto_MultiStep", "ODENonAuto_MultiStep"}
IsA(classes) == Constructed /\ self.cls \in classes
\* forward is past its first statements and has not raised
Simulating == pc \in {"loop", "done"}
\* the tensor the caller supplied for the default key k
Given(k) == data[Get(self.input_key_map, k)]
GivenHas(k) == HasKey(self.input_key_map, k) /\ Get(self.input_key_map, k) \in DOMAIN data

WindowSize == Len(Given("x0"))

\* C12: in the multi-step variants the window state keeps, after every
\* simulated step, the length W of the supplied initial window, and a step
\* replaces it by its entries 2..W followed by the state the step computed.
C12_WindowInvariant ==
  /\ []((IsA(MultiStepClasses) /\ Simulating) => Len(x_3D) = WindowSize)
  /\ [][(IsA(MultiStepClasses) /\ StepTaken) =>
          x_3D' = SubSeq(x_3D, 2, Len(x_3D)) \o X'[Len(X')]]_vars
C12_Witness ==
  /\ IsA({"ODENonAuto_MultiStep"}) /\ pc = "done"
  /\ WindowSize = 2 /\ i = MaxN - 1 /\ i >= 2
  /\ Len(x_3D) = 2 /\ x_3D # Given("x0")

\* C13: a multi-step forward call that returns has run exactly L - W + 1
\* iterations, one integrator invocation each, and X_pred and Y_pred hold
\* exactly L - W + 1 entries each, where W is the length of the supplied
\* window and L >= W the length of the reference sequence the variant reads
\* (the tensor under 'Yp').
C13_MultiStepCount ==
  (IsA(MultiStepClasses) /\ pc = "done" /\ Len(Given("Yp")) >= WindowSize) =>
    /\ i = Len(Given("Yp")) - WindowSize + 1
    /\ Len(X) = i /\ Len(Y) = i
    /\ Len(Out("X_pred")) = i /\ Len(Out("Y_pred")) = i
C13_Witness ==
  /\ IsA({"ODEAuto_MultiStep"}) /\ pc = "done"
  /\ WindowSize = 2 /\ Len(Given("Yp")) = MaxN
  /\ GivenHas("Yf") /\ Len(Given("Yf")) = 0
  /\ Len(Out("X_pred")) = MaxN - 1

\* C14: a TimeDelayBlockSSM constructor call fails unless fx.in_features is
\* (timedelay + 1) * fx.out_features and the in_features of a configured fu
\* or fd is a multiple of timedelay + 1.
C14_DelayWidthsChecked ==
  (/\ args.call = "TimeDelayBlockSSM"
   /\ \/ args.a.fx.in_features # (args.a.timedelay + 1) * args.a.fx.out_features
      \/ \E b \in {args.a.fu, args.a.fd} :
           ~IsNone(b) /\ b.in_features % (args.a.timedelay + 1) # 0)
  => pc = "config_error"

\* C17: in both time-delay variants, with or without an error channel, after
\* a step the newest entry of the delay buffer is the state the step emitted
\* to X_pred and the entries before it are the previous buffer's entries
\* 2..T+1 in order.
C17_NewestIsEmittedState ==
  /\ []((IsA(TimeDelayClasses) /\ Simulating /\ i >= 1) =>
          <<Xtd[Len(Xtd)]>> = X[Len(X)])
  /\ [][(IsA(TimeDelayClasses) /\ StepTaken) =>
          SubSeq(Xtd', 1, Len(Xtd') - 1) = SubSeq(Xtd, 2, Len(Xtd))]_vars

\* the last T past samples followed by the future samples
PastThenFuture(past, future) ==
  SubSeq(Given(past), Len(Given(past)) - self.timedelay + 1, Len(Given(past))) \o Given(future)

\* C18: in the time-delay variants with an input window, for every delay
\* depth T >= 0 and a past prefix of at least T samples, Utd has T + N
\* entries and the window read at step j is the T + 1 samples that end at
\* Uf[j], preceded only by the last T past samples; the same for Dtd.
C18_DelayWindows ==
  (IsA(TimeDelayClasses) /\ Simulating) =>
    /\ (HasBoth(self, "Uf", "Up") /\ Len(Given("Up")) >= self.timedelay) =>
         /\ Len(Utd) = self.timedelay + Len(Given("Yf"))
         /\ \A j \in Range(nsteps) :
              DelayWindow(self, Utd, j)
                = SubSeq(PastThenFuture("Up", "Uf"), j + 1, j + self.timedelay + 1)
    /\ (HasBoth(self, "Df", "Dp") /\ Len(Given("Dp")) >= self.timedelay) =>
         /\ Len(Dtd) = self.timedelay + Len(Given("Yf"))
         /\ \A j \in Range(nsteps) :
              DelayWindow(self, Dtd, j)
                = SubSeq(PastThenFuture("Dp", "Df"), j + 1, j + self.timedelay + 1)

\* BlockSSM.forward as a function of the instance and the bag: the loop of
\* BlockStep from BlockBegin, then BlockOutput
RECURSIVE BlockLoop(_, _, _, _, _, _, _, _, _, _, _)
BlockLoop(obj, refs, h, xr, j, n, xs, ys, fus, fds, fes) ==
  IF j = n THEN BlockOutput(obj, h, xs, ys, fus, fds, fes)
  ELSE LET r == BlockStep(obj, refs, h, xr, j)
       IN BlockLoop(obj, refs, r.heap, r.ref, j + 1, n,
                    Append(xs, r.ref), Append(ys, r.yref),
                    IF IsNone(obj.fu) THEN fus ELSE Append(fus, r.fu),
                    IF IsNone(obj.fd) THEN fds ELSE Append(fds, r.fd),
                    IF IsNone(obj.fe) THEN fes ELSE Append(fes, r.fe))
BlockForward(obj, bag) ==
  BlockLoop(obj, RefsOf(bag), HeapOf(bag),
            BlockBegin(obj, RefsOf(bag), HeapOf(bag)).x, 0,
            BlockBegin(obj, RefsOf(bag), HeapOf(bag)).nsteps,
            << >>, << >>, << >>, << >>, << >>)
\* the BlockSSM with the sub-maps and operators of the current time-delay
\* block instance, and the bag that starts it from the buffer's single state
BlockTwin ==
  BlockSSMInit([fx |-> self.fx, fy |-> self.fy, fu |-> NoBlock, fd |-> NoBlock,
                fe |-> self.fe, fyu |-> NoBlock,
                xou |-> self.xou, xod |-> self.xod, xoe |-> self.xoe, xoyu |-> "add",
                residual |-> self.residual, name |-> self.name,
                input_key_map |-> << >>]).obj
TwinBag == [k \in {"x0", "Yf"} |-> IF k = "x0" THEN Given("Xtd") ELSE Given("Yf")]
DepthZeroRun ==
  /\ IsA({"TimeDelayBlockSSM"}) /\ pc = "done"
  /\ self.timedelay = 0 /\ Len(Given("Xtd")) = 1
  /\ IsNone(self.fu) /\ IsNone(self.fd)

\* C19: with delay depth 0, an initial buffer holding the single state x0 and
\* the same fx, fy, fe and operators, TimeDelayBlockSSM returns the X_pred
\* and the Y_pred that BlockSSM returns when started from x0.
C19_DepthZeroIsBlockSSM ==
  DepthZeroRun =>
    /\ Out("X_pred") = Get(BlockForward(BlockTwin, TwinBag), Suffixed("X_pred"))
    /\ Out("Y_pred") = Get(BlockForward(BlockTwin, TwinBag), Suffixed("Y_pred"))

BagComplete == \A k \in {"x0", "Yf", "Uf", "Df"} : BagHas(k)

\* C25: a BlockSSM configured with fyu and without fu has 'Uf' among its
\* input keys, and its forward call on a bag that holds 'Uf' does not raise:
\* every step appends y = xoyu(fy(x), fyu(Uf[i])).
C25_FyuAloneReadsUf ==
  (Constructed /\ self.cls = "BlockSSM" /\ ~IsNone(self.fyu) /\ IsNone(self.fu)) =>
    /\ HasKey(self.input_key_map, "Uf")
    /\ "Uf" \in SeqRange(self.input_keys)
    /\ (InForward /\ BagComplete) => pc # "raised"

\* the stacked states and observations forward emitted, and the list forward
\* kept for a channel
Emitted(refs) == IF self.cls = "BlockSSM" THEN Stack(heap, refs) ELSE refs
ChannelList(slot) ==
  CASE slot = "fU" -> FU [] slot = "fD" -> FD [] slot = "fE" -> FE
\* what the input and the disturbance channel compute at step j (1-based)
\* from the caller's samples
InputChannelAt(j) ==
  IF self.cls = "BlockSSM"
  THEN Apply(self.fu, <<Tensor(Get(self.input_key_map, "Uf"))[j]>>)
  ELSE Feed(self.fu, DelayWindow(self, Utd, j - 1))
DisturbanceChannelAt(j) ==
  IF self.cls = "BlockSSM"
  THEN Apply(self.fd, <<Tensor(Get(self.input_key_map, "Df"))[j]>>)
  ELSE Feed(self.fd, DelayWindow(self, Dtd, j - 1))
BlockClasses == {"BlockSSM", "TimeDelayBlockSSM"}

\* C26: when BlockSSM.forward or TimeDelayBlockSSM.forward returns after
\* N >= 1 steps, for every subset of configured channels the returned bag
\* holds the states under X_pred, the observations under Y_pred, the outputs
\* of fu under fU, of fd under fD and of fe under fE, and no key of a channel
\* that is not configured.
C26_ListsUnderOwnKeys ==
  (IsA(BlockClasses) /\ pc = "done" /\ i >= 1) =>
    /\ Out("X_pred") = Emitted(X) /\ Out("Y_pred") = Emitted(Y)
    /\ \A slot \in {"fU", "fD", "fE"} :
         IF Enabled(slot)
         THEN HasKey(output, Suffixed(slot)) /\ Out(slot) = ChannelList(slot)
         ELSE ~HasKey(output, Suffixed(slot))
    /\ ~IsNone(self.fu) => Out("fU") = [j \in 1..i |-> InputChannelAt(j)]
    /\ ~IsNone(self.fd) => Out("fD") = [j \in 1..i |-> DisturbanceChannelAt(j)]
C26_Witness ==
  /\ IsA({"BlockSSM"}) /\ pc = "done" /\ i = 2
  /\ IsNone(self.fu) /\ ~IsNone(self.fd) /\ ~IsNone(self.fe)
  /\ Out("fD") = << <<1>>, <<1>> >> /\ Out("fE") = FE /\ Len(FE) = 2
  /\ DictKeys(output) = <<"X_pred", "Y_pred", "fD", "fE", "reg_error">>

\* the caller's tensors, by bag key
BagValues == [k \in DOMAIN data |-> IF self.cls = "BlockSSM" THEN heap[data[k]] ELSE data[k]]
\* a statement of forward after its first ones has run
ForwardRuns == pc = "loop" /\ pc' \in {"loop", "done", "raised"}

\* C23: a forward call on any variant leaves the instance (its key map, key
\* lists, timedelay, residual flag and sub-maps) unchanged and leaves the
\* caller's bag with the same keys and the same tensor values, the
\* initial-state tensor included when residual mode is on and the state
\* transition returns its argument.
C23_ForwardFrame ==
  [][ForwardRuns => /\ self' = self
                    /\ DOMAIN data' = DOMAIN data
                    /\ BagValues' = BagValues]_vars

\* the input samples ODENonAuto.forward interpolates: the extra input when
\* one is configured, the time coordinate otherwise
InputSamples == IF Len(self.extra_inputs) # 0 THEN data[self.extra_inputs[1]] ELSE Given("Time")
\* the state the integrator returns at step j (0-based) from state xs, for
\* the samples at the positions from..to (0-based, inclusive)
IntegratedOver(xs, from, to) ==
  IntegrateNonAuto(self.fx, xs, SubSeq(InputSamples, from + 1, to + 1),
                   SubSeq(Given("Time"), from + 1, to + 1))

\* C21: in ODENonAuto.forward with online mode on, every step i < N-1 calls
\* the integrator with the samples i and i+1 of the inputs and of the time
\* coordinate and the step i = N-1 leaves the state as it is, so that for
\* N >= 1 X_pred has N entries, the last equal to the one before it for N >= 2 and to the
\* initial state for N = 1; with online mode off every step calls the
\* integrator with the single samples inputs[i] and Time[i].
C21_OnlineGap ==
  /\ [][(IsA({"ODENonAuto"}) /\ StepTaken) =>
          X'[Len(X')] = IF self.online_flag
                        THEN IF i < nsteps - 1 THEN IntegratedOver(x, i, i + 1) ELSE x
                        ELSE IntegratedOver(x, i, i)]_vars
  /\ []((IsA({"ODENonAuto"}) /\ pc = "done" /\ self.online_flag /\ Len(Given("Yf")) >= 1) =>
          /\ Len(Out("X_pred")) = Len(Given("Yf"))
          /\ Len(X) >= 2 => X[Len(X)] = X[Len(X) - 1]
          /\ Len(X) = 1 => X[1] = Given("x0"))
C21_Witness ==
  /\ IsA({"ODENonAuto"}) /\ pc = "done" /\ self.online_flag
  /\ self.extra_inputs = <<"Uf">> /\ Len(Given("Yf")) = 3
  /\ X[3] = X[2] /\ X[2] # X[1] /\ X[1] # Given("x0")
  /\ X[1] = IntegratedOver(Given("x0"), 0, 1)

\* the bag holds the tensor of every default input key of the instance under
\* the key the map assigns to it
MappedKeysInBag ==
  \A k \in SeqRange(self.DEFAULT_INPUT_KEYS) : Get(self.input_key_map, k) \in DOMAIN data

\* C22: forward reads the bag only at input_key_map[k] for the default input
\* keys k of the instance, the keys added through extra_inputs included: a
\* bag that holds every mapped key is enough, whether or not it holds the
\* default names, and forward raises no missing-key error on it.
C22_ReadsThroughMap ==
  (Constructed /\ InForward /\ MappedKeysInBag) => err # "KeyError"

\* C24: a BlackSSM constructor call whose fy.in_features differs from
\* fx.out_features fails, so that no such instance exists.
C24_BlackWidthsChecked ==
  (args.call = "BlackSSM" /\ args.a.fy.in_features # args.a.fx.out_features)
    => pc = "config_error"

\* the default keys of an instance as its own configuration determines them
OwnInputKeys(inst) ==
  CASE inst.cls = "BlockSSM" -> BlockDefaultInputKeys(inst)
    [] inst.cls = "TimeDelayBlockSSM" -> TimeDelayBlockDefaultInputKeys(inst)
    [] inst.cls = "BlackSSM" -> <<"x0", "Yf">> \o inst.extra_inputs
    [] inst.cls = "TimeDelayBlackSSM" -> <<"Xtd", "Yf">> \o inst.extra_inputs
OwnOutputKeys(inst) ==
  IF inst.cls \in BlockClasses THEN BlockDefaultOutputKeys(inst)
  ELSE BaseOutputKeys \o (IF ~IsNone(inst.fe) THEN <<"fE">> ELSE << >>)
Plain(inst) ==
  /\ IsNone(inst.fu) /\ IsNone(inst.fd) /\ IsNone(inst.fe)
  /\ inst.cls \notin BlockClasses => inst.extra_inputs = << >>

\* C28: after any sequence of constructions of BlockSSM, BlackSSM and their
\* time-delay subclasses the class-level DEFAULT_INPUT_KEYS and
\* DEFAULT_OUTPUT_KEYS are the ones the class statements define, and the
\* input and output keys of every instance are those of its own
\* configuration: an instance without channels, whenever constructed, has
\* exactly the base keys of its class.
C28_ClassKeysUntouched ==
  /\ class_attrs = ClassDefs
  /\ \A j \in 1..Len(instances) :
       /\ instances[j].DEFAULT_INPUT_KEYS = OwnInputKeys(instances[j])
       /\ instances[j].DEFAULT_OUTPUT_KEYS = OwnOutputKeys(instances[j])
       /\ instances[j].input_keys = OwnInputKeys(instances[j])
       /\ instances[j].output_keys = OutputKeys(OwnOutputKeys(instances[j]), instances[j].name)
       /\ Plain(instances[j]) =>
            /\ instances[j].DEFAULT_INPUT_KEYS = Get(ClassDefs[instances[j].cls], "DEFAULT_INPUT_KEYS")
            /\ instances[j].DEFAULT_OUTPUT_KEYS = BaseOutputKeys
C28_Witness ==
  /\ Len(instances) = 2
  /\ instances[1].cls = "BlockSSM" /\ instances[2].cls = "BlockSSM"
  /\ ~IsNone(instances[1].fu) /\ ~IsNone(instances[1].fd) /\ ~IsNone(instances[1].fe)
  /\ Plain(instances[2])
  /\ instances[2].input_keys = <<"x0", "Yf">>
  /\ instances[1].input_keys = <<"x0", "Yf", "Uf", "Df">>

\* forward run alone on a bag: the loop of VariantStep from VariantBegin, then
\* VariantOutput; [err, output]
RECURSIVE VariantLoop(_, _, _, _, _, _, _, _, _)
VariantLoop(obj, bag, fr, j, xs, ys, fus, fds, fes) ==
  IF j = fr.nsteps
  THEN [err |-> None, output |-> VariantOutput(obj, xs, ys, fus, fds, fes)]
  ELSE LET r == VariantStep(obj, bag, fr, j)
       IN IF r.err # None THEN [err |-> r.err, output |-> << >>]
          ELSE VariantLoop(obj, bag, [fr EXCEPT !.Xtd = r.Xtd, !.x_3D = r.x_3D], j + 1,
                           Append(xs, r.val), Append(ys, r.y),
                           IF IsNone(obj.fu) THEN fus ELSE Append(fus, r.fu),
                           IF IsNone(obj.fd) THEN fds ELSE Append(fds, r.fd),
                           IF IsNone(obj.fe) THEN fes ELSE Append(fes, r.fe))
RunAlone(obj, bag) ==
  IF obj.cls = "BlockSSM" THEN [err |-> None, output |-> BlockForward(obj, bag)]
  ELSE VariantLoop(obj, bag, VariantBegin(obj, bag), 0, << >>, << >>, << >>, << >>, << >>)

\* C27: whatever the interleaving of the iterations of two forward calls on
\* the same instance, each on its own bag, a call that has finished holds the
\* output bag (or the exception) of the same call run alone on that bag.
C27_InterleavedCallsIndependent ==
  \A c \in Calls :
    calls[c].pc \in {"done", "raised"} =>
      /\ calls[c].err = RunAlone(self, calls[c].bag).err
      /\ calls[c].output = RunAlone(self, calls[c].bag).output
C27_Witness ==
  /\ self.cls = "BlockSSM" /\ self.residual /\ self.fx.fn = "pass"
  /\ calls[1].pc = "done" /\ calls[2].pc = "loop" /\ calls[2].i = 1
  /\ calls[1].i = 2 /\ calls[2].nsteps = 2
  /\ calls[1].bag # calls[2].bag
  /\ calls[1].X[1] < calls[2].X[1] /\ calls[2].X[1] < calls[1].X[2]
  /\ Get(calls[1].output, "X_pred_block_ssm") # << <<0>>, <<0>> >>

\* the factory has returned a model
Built(factory) == args.call = factory /\ pc = "idle"
\* the width of array k of the dataset the factory was called with
Dim(k) == IF k \in DOMAIN args.datadims THEN LastDim(args.datadims[k]) ELSE 0
IsLinear(b) == b.kind = "linmap"
IsNonlinear(b) == b.kind = "nonlinmap"

\* C29: block_model returns a model exactly for the kinds of _bssm_kinds and
\* fails its assertion for every other kind; the model of kind 'wiener' has a
\* linear fx, a nonlinear fy and linear fu and fd.
C29_WienerOwnStructure ==
  args.call = "block_model" =>
    /\ (pc = "idle") = (args.kind \in bssm_kinds)
    /\ (pc # "idle") => (err = "AssertionError" /\ self = NoObject)
    /\ (pc = "idle" /\ args.kind = "wiener") =>
         /\ IsLinear(self.fx) /\ IsNonlinear(self.fy)
         /\ ~IsNone(self.fu) => IsLinear(self.fu)
         /\ ~IsNone(self.fd) => IsLinear(self.fd)

\* C30: for every delay depth T the sub-maps of a factory-built model declare
\* fx.in_features = (T+1)*nx (block_model) or (T+1)*(nx+nu+nd)
\* (blackbox_model), fy.in_features = (T+1)*nx, and fu / fd in_features =
\* (T+1)*nu / (T+1)*nd.
C30_FactoryWidths ==
  (Built("block_model") \/ Built("blackbox_model")) =>
    LET T == args.timedelay
    IN /\ Built("block_model") => self.fx.in_features = (T + 1) * Dim("x0")
       /\ Built("blackbox_model") =>
            self.fx.in_features = (T + 1) * (Dim("x0") + Dim("Uf") + Dim("Df"))
       /\ self.fy.in_features = (T + 1) * Dim("x0")
       /\ ~IsNone(self.fu) => self.fu.in_features = (T + 1) * Dim("Uf")
       /\ ~IsNone(self.fd) => self.fd.in_features = (T + 1) * Dim("Df")

====
